---- MODULE Spec2Model ----
(***************************************************************************)
(* A model of the brainfuck virtual machine of this repository: the       *)
(* Script (loader, instruction pointer, bracket search, cycle counter) of *)
(* src/runtime.rs, the cell store of src/runtime.rs and                   *)
(* src/runtime/context.rs, and the dispatcher of src/interactive.rs.      *)
(***************************************************************************)
EXTENDS Integers, Sequences, FiniteSets, TLC

\* ------------------------------------------------------------------ bounds

\* Every source string of at most MaxSrcLen characters is loaded.
MaxSrcLen == 4
\* Steps are taken while the cycle counter is below MaxCycles.
MaxCycles == 16
\* `>` is executed while the data pointer is below MaxData.
MaxData == 3
\* The ends of a band, and the values written to a cell, are within MaxBand
\* of 0 and of the largest cell value.
MaxBand == 1
\* Every source string of at most MaxHostSrcLen characters is loaded in the
\* interactive host.
MaxHostSrcLen == 2

\* ------------------------------------------------------- program constants

\* u8::MAX, the largest value of a cell of RuntimeContext.data (Vec<u8>).
CellTypeMax == 255
\* usize::MAX. The machine word is wider than the integers of the checker:
\* the model keeps the largest index it can hold, and only compares it and
\* wraps to and from it.
UsizeMax == 2147483647

None == "None"

\* The characters of a source text; "x" is any character that is no
\* instruction.
Chars == {">", "<", "+", "-", ".", ",", "[", "]", "x"}

\* ------------------------------------------------------------------ loader

\* Every other character is read as `+`.
from_char_Lenient(ch) ==
    CASE ch = ">" -> "IncrementDataPointer"
      [] ch = "<" -> "DecrementDataPointer"
      [] ch = "-" -> "DecrementData"
      [] ch = "." -> "OutputData"
      [] ch = "," -> "AcceptData"
      [] ch = "[" -> "JumpForwardsIfZero"
      [] ch = "]" -> "JumpBackwardsIfNonzero"
      [] OTHER -> "IncrementData"

\* Instruction::from_char
from_char(ch) ==
    CASE ch = ">" -> "IncrementDataPointer"
      [] ch = "<" -> "DecrementDataPointer"
      [] ch = "+" -> "IncrementData"
      [] ch = "-" -> "DecrementData"
      [] ch = "." -> "OutputData"
      [] ch = "," -> "AcceptData"
      [] ch = "[" -> "JumpForwardsIfZero"
      [] ch = "]" -> "JumpBackwardsIfNonzero"
      [] OTHER -> None

RECURSIVE LoadFrom(_, _)
\* The loop of Script::new from character index u on.
LoadFrom(src, u) ==
    IF u >= Len(src) THEN <<>>
    ELSE LET ins == from_char(src[u + 1])
         IN  IF ins = None THEN LoadFrom(src, u + 1)
             ELSE <<[instruction |-> ins, source_position |-> u]>>
                      \o LoadFrom(src, u + 1)

\* Script::new: the instruction list of a source text.
ScriptNew(src) == LoadFrom(src, 0)

\* ----------------------------------------------------------------- sources

SeqsUpTo(n) == UNION {[1..k -> Chars] : k \in 0..n}

\* Programs with loops longer than MaxSrcLen: the transfer loop, nested
\* loops that are entered, skipped and repeated, and unmatched brackets.
NamedSources ==
    { <<"+", "+", "[", ">", "+", "<", "-", "]">>,
      <<"[", "[", "]", "[", "]", "]", "+">>,
      <<"[", "[", "[", "]", "]", "]">>,
      <<"+", "[", "[", "-", "]", "+", "]">>,
      <<"+", "[", ">", "[", "]", "[", "[", "]", "]", "<", "]">>,
      <<",", "[", "[", "-", "]", ",", "]">>,
      <<"+", "[", "-", "[", "]", "x", "]", "[", "+", "]">>,
      <<"[", "[", "]", "+">>,
      <<"+", "]", "]", "[">>,
      <<"+", "[", "]", "]", "]">>,
      <<"-", "+", "+", "[", "-", "]">> }

Sources == SeqsUpTo(MaxSrcLen) \cup NamedSources

\* The values the read callback returns.
InputValues == {0, 1, CellTypeMax}

\* Option::None of InteractiveState.last_executed_instruction.
NoInstruction == [instruction |-> None, source_position |-> 0]

\* A Command is its variant and the fields of all variants: idx the
\* Option<usize> of SetData, index the usize of SetInstructionPointer and
\* SetDataPointer; NoCommand gives the fields a variant does not have.
NoCommand ==
    [name |-> "none", idx |-> <<>>, index |-> 0, value |-> 0, speed |-> 0,
     path |-> <<>>]

\* No command line has been parsed yet.
NoResult ==
    [kind |-> "none", parts |-> <<>>, command |-> NoCommand, message |-> ""]

\* OwnedCommandResult::empty: TooShort with no parts and no message.
empty == [NoResult EXCEPT !.kind = "TooShort"]

\* No cell operation has been applied yet.
NoHistory == [op |-> "none", i |-> 0, count |-> 0, start |-> 0]

VARIABLES
    source,                    \* Script.source
    instructions,              \* Script.instructions
    instruction_pointer,       \* Script.instruction_pointer
    cycles,                    \* Script.cycles
    data,                      \* RuntimeContext.data
    data_pointer,              \* RuntimeContext.data_pointer
    min_cell_value,            \* RuntimeContext.min_cell_value
    max_cell_value,            \* RuntimeContext.max_cell_value
    last_executed_instruction, \* InteractiveState.last_executed_instruction
    pc,                        \* where execute_instruction stands
    depth,                     \* the depth of the bracket search under way
    overflow_checks,           \* the build: TRUE panics on overflow, FALSE wraps
    panicked,                  \* the process has aborted
    refreshes,                 \* invocations of the refresh callback
    output,                    \* the values handed to the write callback
    reads,                     \* invocations of the read callback
    lastOp,                    \* the operation that made the last change
    history,                   \* the run of one cell operation under way
    cmd_str,                   \* the command line handed to parse_command
    autocomplete,              \* the autocomplete flag handed to parse_command
    result,                    \* the CommandResult of the last parse
    should_quit,               \* InteractiveState.should_quit
    execution_paused,          \* InteractiveState.execution_paused
    execution_clock_speed,     \* InteractiveState.execution_clock_speed, in ms
    command_output,            \* InteractiveState.command_output
    executed,                  \* the commands handed to execute_command
    activity,                  \* InteractiveState.activity
    input,                     \* CommandInputState.input, its value
    current_result,            \* CommandInputState.current.result
    command_history,           \* CommandInputState.history, latest first
    history_selected           \* CommandInputState.history_selected

vars == <<source, instructions, instruction_pointer, cycles, data,
          data_pointer, min_cell_value, max_cell_value,
          last_executed_instruction, pc, depth, overflow_checks, panicked,
          refreshes, output, reads, lastOp, history, cmd_str, autocomplete,
          result, should_quit, execution_paused, execution_clock_speed,
          command_output, executed, activity, input, current_result,
          command_history, history_selected>>

\* ------------------------------------------------------------- cell store

\* Vec::resize(n, 0)
Resize(d, n) == [k \in 1..n |-> IF k <= Len(d) THEN d[k] ELSE 0]

\* The store has grown by more than the cell asked for.
Grown_OneTooMany(d, i) == IF Len(d) <= i THEN Resize(d, i + 2) ELSE d

\* RuntimeContext::get_cell of src/runtime.rs: the store after the growth
\* to data_pointer + 1.
Grown(d, i) == IF Len(d) <= i THEN Resize(d, i + 1) ELSE d

\* RuntimeContext::read_cell
ReadCell(d, i) == IF Len(d) <= i THEN 0 ELSE d[i + 1]

read_cell == ReadCell(data, data_pointer)

\* u8::overflowing_add(1).0
OverflowingAdd1(v) == (v + 1) % (CellTypeMax + 1)

\* u8::overflowing_sub(1).0
OverflowingSub1(v) == (v + CellTypeMax) % (CellTypeMax + 1)

\* ------------------------------------------------------------------ script

\* Vec::get(ip) of Script::instruction
InstructionAt(ip) ==
    IF ip < Len(instructions) THEN instructions[ip + 1].instruction ELSE None

\* Script::instruction
instruction == InstructionAt(instruction_pointer)

\* Script::has_remaining_instructions
has_remaining_instructions == Len(instructions) > instruction_pointer

\* ------------------------------------------------------------ construction

\* Script::new and RuntimeContext::new: the machine after construction,
\* for each source of srcs and each build, in the InteractiveState that
\* interactive_runtime constructs around it.
InitWith(srcs) ==
    /\ source \in srcs
    /\ instructions = ScriptNew(source)
    /\ instruction_pointer = 0
    /\ cycles = 0
    /\ data = <<>>
    /\ data_pointer = 0
    /\ min_cell_value = 0
    /\ max_cell_value = CellTypeMax
    /\ last_executed_instruction = NoInstruction
    /\ pc = "idle"
    /\ depth = 0
    /\ overflow_checks \in BOOLEAN
    /\ panicked = FALSE
    /\ refreshes = 0
    /\ output = <<>>
    /\ reads = 0
    /\ lastOp = "init"
    /\ history = NoHistory
    /\ result = NoResult
    /\ should_quit = FALSE
    /\ execution_paused = TRUE
    /\ execution_clock_speed = 100
    /\ command_output = <<>>
    /\ executed = <<>>
    /\ activity = "Normal"
    /\ input = <<>>
    /\ current_result = empty
    /\ command_history = <<>>
    /\ history_selected = <<>>

\* No command line has been entered.
NoInput == cmd_str = <<>> /\ autocomplete = FALSE

Init == InitWith(Sources) /\ NoInput

\* -------------------------------------------------------------------- step

program == <<source, instructions, overflow_checks>>
band == <<min_cell_value, max_cell_value>>
io == <<output, reads>>
command == <<cmd_str, autocomplete, result>>
host == <<should_quit, execution_paused, execution_clock_speed,
          command_output, executed>>
keys == <<activity, input, current_result, command_history,
          history_selected>>

\* A step is taken: the machine is between steps, has not aborted, and the
\* instruction at the pointer is ins.
StepGuard(ins) ==
    /\ pc = "idle"
    /\ ~panicked
    /\ cycles < MaxCycles
    /\ instruction = ins

\* InteractiveState::execute: the instruction about to be executed.
Begin ==
    last_executed_instruction' = instructions[instruction_pointer + 1]

\* The step is counted once for each clock().
EndOfStep_PerClock(ip, clocks) ==
    /\ instruction_pointer' = ip
    /\ refreshes' = refreshes + clocks
    /\ cycles' = cycles + clocks
    /\ pc' = "idle"
    /\ lastOp' = "step"

\* The end of execute_instruction: the pointer settles at ip, the last
\* clock() is called (clocks counts it and those of the iteration that
\* ended a search) and the step is counted.
EndOfStep(ip, clocks) ==
    /\ instruction_pointer' = ip
    /\ refreshes' = refreshes + clocks
    /\ cycles' = cycles + 1
    /\ pc' = "idle"
    /\ lastOp' = "step"

\* next_instr is true: the pointer moves to the next instruction.
Advance == EndOfStep(instruction_pointer + 1, 1)

\* An arithmetic overflow with overflow checks, an index out of bounds or
\* a failed expect(): the process aborts where it stands.
Panic ==
    /\ panicked' = TRUE
    /\ lastOp' = "panic"
    /\ UNCHANGED <<instruction_pointer, cycles, pc, refreshes>>

\* RuntimeContext::get_cell cannot return a cell: the data pointer has
\* wrapped below 0, and data_pointer + 1 overflows or is more cells than
\* memory holds (a pointer the run reaches otherwise is at most MaxData).
GetCellPanics == data_pointer > MaxData

\* At usize::MAX without overflow checks, data_pointer + 1 is 0: resize(0)
\* empties the store and the index is out of bounds. Otherwise the panic
\* or the failed allocation leaves the store as it is.
GetCellPanic ==
    /\ Panic
    /\ data' = IF data_pointer = UsizeMax /\ ~overflow_checks
               THEN <<>> ELSE data

\* RuntimeContext::process_cell
ProcessCell(v) ==
    data' = [Grown(data, data_pointer) EXCEPT ![data_pointer + 1] = v]

\* Instruction::IncrementDataPointer
IncrementDataPointer ==
    /\ StepGuard("IncrementDataPointer")
    /\ data_pointer # MaxData
    /\ Begin
    /\ IF data_pointer = UsizeMax /\ overflow_checks
       THEN Panic /\ UNCHANGED data_pointer
       ELSE /\ data_pointer' = IF data_pointer = UsizeMax THEN 0
                               ELSE data_pointer + 1
            /\ Advance
            /\ UNCHANGED panicked
    /\ UNCHANGED <<program, command, host, keys, band, history, io, data, depth>>

\* Instruction::DecrementDataPointer
DecrementDataPointer ==
    /\ StepGuard("DecrementDataPointer")
    /\ Begin
    /\ IF data_pointer = 0 /\ overflow_checks
       THEN Panic /\ UNCHANGED data_pointer
       ELSE /\ data_pointer' = IF data_pointer = 0 THEN UsizeMax
                               ELSE data_pointer - 1
            /\ Advance
            /\ UNCHANGED panicked
    /\ UNCHANGED <<program, command, host, keys, band, history, io, data, depth>>

\* Instruction::IncrementData
IncrementData ==
    /\ StepGuard("IncrementData")
    /\ Begin
    /\ IF GetCellPanics
       THEN GetCellPanic
       ELSE /\ ProcessCell(OverflowingAdd1(ReadCell(data, data_pointer)))
            /\ Advance
            /\ UNCHANGED panicked
    /\ UNCHANGED <<program, command, host, keys, band, history, io, data_pointer, depth>>

\* Instruction::DecrementData
DecrementData ==
    /\ StepGuard("DecrementData")
    /\ Begin
    /\ IF GetCellPanics
       THEN GetCellPanic
       ELSE /\ ProcessCell(OverflowingSub1(ReadCell(data, data_pointer)))
            /\ Advance
            /\ UNCHANGED panicked
    /\ UNCHANGED <<program, command, host, keys, band, history, io, data_pointer, depth>>

\* Instruction::OutputData
OutputData ==
    /\ StepGuard("OutputData")
    /\ Begin
    /\ output' = Append(output, read_cell)
    /\ Advance
    /\ UNCHANGED <<program, command, host, keys, band, history, reads, data, data_pointer, depth, panicked>>

\* Instruction::AcceptData: the read callback is called first, then
\* get_cell; the callback fails (expect) or returns a value.
AcceptData ==
    /\ StepGuard("AcceptData")
    /\ Begin
    /\ reads' = reads + 1
    /\ \/ /\ Panic
          /\ UNCHANGED data
       \/ \E v \in InputValues :
             IF GetCellPanics
             THEN GetCellPanic
             ELSE /\ ProcessCell(v)
                  /\ Advance
                  /\ UNCHANGED panicked
    /\ UNCHANGED <<program, command, host, keys, band, history, output, data_pointer, depth>>

\* The test of JumpForwardsIfZero on the current cell.
JumpsForwards(cell) == cell = 0

\* Instruction::JumpForwardsIfZero: on a zero cell jump_forwards starts
\* with depth 0, otherwise the step falls through.
JumpForwardsIfZero ==
    /\ StepGuard("JumpForwardsIfZero")
    /\ Begin
    /\ IF JumpsForwards(read_cell)
       THEN /\ pc' = "jump_forwards"
            /\ depth' = 0
            /\ lastOp' = "search"
            /\ UNCHANGED <<instruction_pointer, cycles, refreshes>>
       ELSE Advance /\ UNCHANGED depth
    /\ UNCHANGED <<program, command, host, keys, band, history, io, data, data_pointer, panicked>>

\* A test of the wrong sign.
JumpsBackwards_OnZero(cell) == cell = 0

\* The test of JumpBackwardsIfNonzero on the current cell.
JumpsBackwards(cell) == cell # 0

\* Instruction::JumpBackwardsIfNonzero: on a nonzero cell jump_backwards
\* starts with depth 0, otherwise the step falls through.
JumpBackwardsIfNonzero ==
    /\ StepGuard("JumpBackwardsIfNonzero")
    /\ Begin
    /\ IF JumpsBackwards(read_cell)
       THEN /\ pc' = "jump_backwards"
            /\ depth' = 0
            /\ lastOp' = "search"
            /\ UNCHANGED <<instruction_pointer, cycles, refreshes>>
       ELSE Advance /\ UNCHANGED depth
    /\ UNCHANGED <<program, command, host, keys, band, history, io, data, data_pointer, panicked>>

\* The depth is not looked at.
ForwardsFound_AnyDepth(ins, d) == ins = "JumpBackwardsIfNonzero"

\* jump_forwards returns true: the instruction met closes the loop.
ForwardsFound(ins, d) == ins = "JumpBackwardsIfNonzero" /\ d = 0

\* A nested `[` is not counted.
ForwardsDepth_OpenNotCounted(ins, d) ==
    CASE ins = "JumpBackwardsIfNonzero" -> d - 1
      [] OTHER -> d

\* The depth of jump_forwards after an instruction that does not end it.
ForwardsDepth(ins, d) ==
    CASE ins = "JumpBackwardsIfNonzero" -> d - 1
      [] ins = "JumpForwardsIfZero" -> d + 1
      [] OTHER -> d

\* One iteration of the loop of Script::jump_forwards; the iteration that
\* leaves the loop also ends the step.
JumpForwardsLoop ==
    /\ pc = "jump_forwards"
    /\ ~panicked
    /\ IF instruction_pointer < Len(instructions)
       THEN LET ip == instruction_pointer + 1
                ins == InstructionAt(ip)
            IN  IF ins = None \/ ForwardsFound(ins, depth)
                THEN EndOfStep(ip, 2) /\ UNCHANGED depth
                ELSE /\ instruction_pointer' = ip
                     /\ refreshes' = refreshes + 1
                     /\ depth' = ForwardsDepth(ins, depth)
                     /\ lastOp' = "search"
                     /\ UNCHANGED <<pc, cycles>>
       ELSE EndOfStep(instruction_pointer, 1) /\ UNCHANGED depth
    /\ UNCHANGED <<program, command, host, keys, band, history, io, data, data_pointer, panicked,
                   last_executed_instruction>>

\* The depth is compared with 1.
BackwardsFound_OffByOne(ins, d) == ins = "JumpForwardsIfZero" /\ d = 1

\* jump_backwards returns true: the instruction met opens the loop.
BackwardsFound(ins, d) == ins = "JumpForwardsIfZero" /\ d = 0

\* The pointer is left on the `[`.
BackwardsLanding_OnOpen(ip) == ip

\* Where jump_backwards leaves the pointer when it has met, at ip, the
\* instruction that opens the loop.
BackwardsLanding(ip) == ip + 1

\* The depth of jump_backwards after an instruction that does not end it.
BackwardsDepth(ins, d) ==
    CASE ins = "JumpForwardsIfZero" -> d - 1
      [] ins = "JumpBackwardsIfNonzero" -> d + 1
      [] OTHER -> d

\* The condition of the loop of jump_backwards: instruction_pointer >= 0,
\* on an unsigned pointer.
BackwardsContinues(ip) == ip >= 0

\* One iteration of the loop of Script::jump_backwards: the pointer is
\* decremented (below 0 it overflows: a panic with overflow checks, a wrap
\* to usize::MAX without); the iteration that leaves the loop also ends the
\* step.
JumpBackwardsLoop ==
    /\ pc = "jump_backwards"
    /\ ~panicked
    /\ IF ~BackwardsContinues(instruction_pointer)
       THEN EndOfStep(instruction_pointer, 1) /\ UNCHANGED <<depth, panicked>>
       ELSE IF instruction_pointer = 0 /\ overflow_checks
       THEN Panic /\ UNCHANGED depth
       ELSE LET ip == IF instruction_pointer = 0 THEN UsizeMax
                      ELSE instruction_pointer - 1
                ins == InstructionAt(ip)
            IN  /\ UNCHANGED panicked
                /\ IF ins = None
                   THEN EndOfStep(ip, 2) /\ UNCHANGED depth
                   ELSE IF BackwardsFound(ins, depth)
                   THEN EndOfStep(BackwardsLanding(ip), 2) /\ UNCHANGED depth
                   ELSE /\ instruction_pointer' = ip
                        /\ refreshes' = refreshes + 1
                        /\ depth' = BackwardsDepth(ins, depth)
                        /\ lastOp' = "search"
                        /\ UNCHANGED <<pc, cycles>>
    /\ UNCHANGED <<program, command, host, keys, band, history, io, data, data_pointer,
                   last_executed_instruction>>

\* The step is clocked and counted without an instruction.
HaltedStep_Counted ==
    /\ pc = "idle"
    /\ ~panicked
    /\ instruction = None
    /\ cycles < MaxCycles
    /\ refreshes' = refreshes + 1
    /\ cycles' = cycles + 1
    /\ lastOp' = "noop"
    /\ UNCHANGED <<program, command, host, keys, band, history, io, data, data_pointer, panicked,
                   instruction_pointer, pc, depth, last_executed_instruction>>

\* InteractiveState::execute and Script::execute_instruction when there is
\* no instruction at the pointer: both return at once.
HaltedStep ==
    /\ pc = "idle"
    /\ ~panicked
    /\ instruction = None
    /\ lastOp' = "noop"
    /\ UNCHANGED <<program, command, host, keys, band, history, io, data, data_pointer, panicked,
                   instruction_pointer, cycles, refreshes, pc, depth,
                   last_executed_instruction>>

\* Script::execute_instruction, one action for each instruction and for
\* each iteration of a bracket search.
Step ==
    \/ IncrementDataPointer
    \/ DecrementDataPointer
    \/ IncrementData
    \/ DecrementData
    \/ OutputData
    \/ AcceptData
    \/ JumpForwardsIfZero
    \/ JumpBackwardsIfNonzero
    \/ JumpForwardsLoop
    \/ JumpBackwardsLoop
    \/ HaltedStep

Next == Step

\* The machine after construction, stepped by its host.
Spec == Init /\ [][Next]_vars

\* ------------------------------------------------------- claims: brackets

\* The transfer loop `++[>+<-]`.
GoldenSource == <<"+", "+", "[", ">", "+", "<", "-", "]">>

\* The machine is between steps with no instruction left.
Halted == pc = "idle" /\ ~panicked /\ ~has_remaining_instructions

\* A step has just ended.
StepEnded == pc = "idle" /\ lastOp = "step"

\* The number of instructions ins among those at indexes a..b.
CountOf(ins, a, b) ==
    Cardinality({k \in a..b : instructions[k + 1].instruction = ins})

Opens(a, b) == CountOf("JumpForwardsIfZero", a, b)
Closes(a, b) == CountOf("JumpBackwardsIfNonzero", a, b)

\* Every `]` closes an earlier `[` and every `[` is closed.
Balanced ==
    LET n == Len(instructions)
    IN  /\ \A k \in 0..(n - 1) : Opens(0, k) >= Closes(0, k)
        /\ Opens(0, n - 1) = Closes(0, n - 1)

\* The index of the `]` that matches, by nesting depth, the `[` at index i:
\* the first index after i up to which as many loops close as open.
ClosesAfter(i) ==
    {m \in (i + 1)..(Len(instructions) - 1) : Opens(i, m) = Closes(i, m)}

HasMatchingClose(i) == ClosesAfter(i) # {}

MatchingClose(i) ==
    CHOOSE m \in ClosesAfter(i) : \A x \in ClosesAfter(i) : m <= x

\* The index of the `[` that matches, by nesting depth, the `]` at index k:
\* the last index before k from which as many loops open as close.
OpensBefore(k) == {j \in 0..(k - 1) : Opens(j, k) = Closes(j, k)}

HasMatchingOpen(k) == OpensBefore(k) # {}

MatchingOpen(k) ==
    CHOOSE j \in OpensBefore(k) : \A x \in OpensBefore(k) : j >= x

\* The index in the instruction list of the instruction last executed
\* (source offsets are unique).
LastIndex ==
    CHOOSE k \in 0..(Len(instructions) - 1) :
        instructions[k + 1] = last_executed_instruction

\* The step that has just ended executed ins.
Executed(ins) ==
    /\ StepEnded
    /\ last_executed_instruction.instruction = ins

\* C1 (as stated): the transfer loop `++[>+<-]`, stepped from an all-zero
\* store until it halts, halts with the cycle counter at 2 + 2*2 + 1 = 7,
\* with 1 at address 1 and 0 at address 0.
C1_GoldenAsStated ==
    (source = GoldenSource /\ Halted) =>
        /\ cycles = 7
        /\ ReadCell(data, 1) = 1
        /\ ReadCell(data, 0) = 0

\* C1 (amended): the transfer loop `++[>+<-]`, stepped from an all-zero
\* store, never counts more than 13 cycles, and when it has halted the
\* cycle counter is 13 = 2 + 1 + 5*2 (two increments, the entry of the
\* loop, five instructions for each of the two iterations) with 2 at
\* address 1 and 0 at address 0.
C1_Golden ==
    source = GoldenSource =>
        /\ cycles <= 13
        /\ ~panicked
        /\ Halted =>
              /\ cycles = 13
              /\ ReadCell(data, 1) = 2
              /\ ReadCell(data, 0) = 0
              /\ min_cell_value = 0 /\ max_cell_value = 255

C1_Witness == source = GoldenSource /\ Halted /\ lastOp = "step"

\* C2: while a program with balanced brackets is stepped from its initial
\* state, the instruction pointer is never below 0 (no decrement overflows
\* and it never wraps) and never above len + 1, the positions inside a
\* bracket search included.
C2_PointerInRange ==
    Balanced =>
        /\ instruction_pointer >= 0
        /\ instruction_pointer <= Len(instructions) + 1
        /\ ~(panicked /\ pc = "jump_backwards")

C2_Witness ==
    /\ Balanced
    /\ pc = "jump_backwards"
    /\ depth = 1
    /\ instruction_pointer > 0

\* The step that has just ended executed `[` on a zero cell, and a `]`
\* matches that `[` (a bracket search leaves the store and the data pointer
\* alone, so the cell read after the step is the cell the step tested).
SkippedLoop ==
    /\ Executed("JumpForwardsIfZero")
    /\ read_cell = 0
    /\ HasMatchingClose(LastIndex)

\* C3 (as stated): a step that executes `[` at index i on a zero cell ends
\* with the instruction pointer at m + 1, m the index of the matching `]`.
C3_LandsPastClose ==
    SkippedLoop => instruction_pointer = MatchingClose(LastIndex) + 1

\* C3 (amended): a step that executes `[` at index i on a zero cell ends
\* with the instruction pointer at m, on the matching `]` itself, whatever
\* loops are nested between i and m; the cell being still zero, the step
\* after it executes that `]` and falls through to m + 1.
C3_LandsOnClose ==
    /\ SkippedLoop =>
          /\ instruction_pointer = MatchingClose(LastIndex)
          /\ instruction = "JumpBackwardsIfNonzero"
    /\ (Executed("JumpBackwardsIfNonzero") /\ read_cell = 0) =>
          instruction_pointer = LastIndex + 1

\* A loop with a loop nested in it has been skipped.
C3_Witness ==
    /\ SkippedLoop
    /\ MatchingClose(LastIndex) > LastIndex + 2
    /\ Opens(LastIndex, MatchingClose(LastIndex)) > 1

\* The step that has just ended executed `]` on a nonzero cell, and a `[`
\* matches that `]`.
RepeatedLoop ==
    /\ Executed("JumpBackwardsIfNonzero")
    /\ read_cell # 0
    /\ HasMatchingOpen(LastIndex)

\* C4: a step that executes `]` at index k on a nonzero cell ends with the
\* instruction pointer at j + 1, j the index of the matching `[`, whatever
\* loops are nested between j and k.
C4_LandsAfterOpen ==
    RepeatedLoop => instruction_pointer = MatchingOpen(LastIndex) + 1

\* A loop with a loop nested in it has been repeated.
C4_Witness ==
    /\ RepeatedLoop
    /\ Closes(MatchingOpen(LastIndex), LastIndex) > 1

\* The instruction last executed is a `]` that no `[` matches, and it was
\* executed on a nonzero cell: the search is under way, has ended the step
\* or has aborted.
UnmatchedClose ==
    /\ last_executed_instruction.instruction = "JumpBackwardsIfNonzero"
    /\ ~HasMatchingOpen(LastIndex)
    /\ read_cell # 0
    /\ pc = "jump_backwards" \/ lastOp \in {"step", "panic"}

\* C5: while and after a step executes a `]` without a matching `[` on a
\* nonzero cell, the process has not aborted and the instruction pointer
\* has not wrapped: it is at most len.
C5_NoUnderflow ==
    UnmatchedClose =>
        /\ ~panicked
        /\ instruction_pointer <= Len(instructions)

\* The step that has just ended executed `[` on a zero cell, and no `]`
\* matches that `[`.
UnmatchedOpen ==
    /\ Executed("JumpForwardsIfZero")
    /\ read_cell = 0
    /\ ~HasMatchingClose(LastIndex)

\* C6: a step that executes a `[` without a matching `]` on a zero cell
\* ends with the instruction pointer at len and without an abort, and no
\* step of a forward search changes the store or the data pointer.
C6_RunsOffTheEnd ==
    /\ [](UnmatchedOpen =>
            /\ instruction_pointer = Len(instructions)
            /\ Halted)
    /\ [][(pc = "jump_forwards" \/ pc' = "jump_forwards") =>
            UNCHANGED <<data, data_pointer>>]_vars

\* An unmatched `[` before a nested, matched loop has run off the end.
C6_Witness ==
    /\ UnmatchedOpen
    /\ Len(instructions) > LastIndex + 2

\* C7: a step called when there is no instruction at the pointer changes
\* neither the instruction pointer, the cycle counter, the store, the data
\* pointer nor the band, and calls none of the read, write and refresh
\* callbacks.
C7_HaltedStepIsNoOp ==
    [][(pc = "idle" /\ instruction = None) =>
          UNCHANGED <<instruction_pointer, cycles, data, data_pointer, band,
                      refreshes, output, reads, panicked, source,
                      instructions>>]_vars

\* A step has been called on a machine that ran to its end.
C7_Witness == lastOp = "noop" /\ cycles > 0 /\ Halted

\* ----------------------------------------- cell store of runtime/context.rs

\* The values a band is set to and a cell is written with: those within
\* MaxBand of 0 and of the largest value of the cell type.
BandEdges == (0..MaxBand) \cup ((CellTypeMax - MaxBand)..CellTypeMax)

\* The indexes the cell operations are applied at.
CellIndexes == {0, 1}

\* The wrap of the cell type, not of the band.
IncrementedCell_NativeWrap(cell, min, max) == (cell + 1) % (CellTypeMax + 1)

\* RuntimeContext::increment_cell: the new value of the cell.
IncrementedCell(cell, min, max) == IF cell >= max THEN min ELSE cell + 1

\* The wrap of the cell type, not of the band.
DecrementedCell_NativeWrap(cell, min, max) ==
    (cell + CellTypeMax) % (CellTypeMax + 1)

\* RuntimeContext::decrement_cell: the new value of the cell.
DecrementedCell(cell, min, max) == IF cell <= min THEN max ELSE cell - 1

\* One more operation op at index i in the run under way; a run is at most
\* as long as the cell type has values.
RunStep(op, i) ==
    /\ history.op = "none" \/ (history.op = op /\ history.i = i)
    /\ history.count <= CellTypeMax
    /\ history' = [op |-> op, i |-> i, count |-> history.count + 1,
                   start |-> IF history.op = "none" THEN ReadCell(data, i)
                             ELSE history.start]

script == <<instruction_pointer, cycles, last_executed_instruction, pc,
            depth, refreshes>>

\* execute_command, Command::SetBounds
SetBounds(lower, upper) ==
    /\ pc = "idle"
    /\ ~panicked
    /\ min_cell_value' = lower
    /\ max_cell_value' = upper
    /\ lastOp' = "SetBounds"
    /\ UNCHANGED <<program, command, host, keys, script, io, history, data, data_pointer,
                   panicked>>

\* RuntimeContext::get_cell of runtime/context.rs and a write through the
\* reference it returns.
GetCellMut(i, v) ==
    /\ pc = "idle"
    /\ ~panicked
    /\ data' = [Grown(data, i) EXCEPT ![i + 1] = v]
    /\ lastOp' = "get_cell"
    /\ UNCHANGED <<program, command, host, keys, script, io, band, history, data_pointer,
                   panicked>>

\* RuntimeContext::increment_cell
IncrementCell(i) ==
    /\ pc = "idle"
    /\ ~panicked
    /\ RunStep("increment_cell", i)
    /\ data' = [Grown(data, i) EXCEPT
                  ![i + 1] = IncrementedCell(@, min_cell_value, max_cell_value)]
    /\ lastOp' = "increment_cell"
    /\ UNCHANGED <<program, command, host, keys, script, io, band, data_pointer, panicked>>

\* RuntimeContext::decrement_cell
DecrementCell(i) ==
    /\ pc = "idle"
    /\ ~panicked
    /\ RunStep("decrement_cell", i)
    /\ data' = [Grown(data, i) EXCEPT
                  ![i + 1] = DecrementedCell(@, min_cell_value, max_cell_value)]
    /\ lastOp' = "decrement_cell"
    /\ UNCHANGED <<program, command, host, keys, script, io, band, data_pointer, panicked>>

\* RuntimeContext::new, with no program loaded.
CellInit == InitWith({<<>>}) /\ NoInput

\* The store is set up (bounds set, cells written), then one operation is
\* applied again and again at one index.
CellNext ==
    \/ /\ history.op = "none"
       /\ \E lower \in BandEdges, upper \in BandEdges : SetBounds(lower, upper)
    \/ /\ history.op = "none"
       /\ \E i \in CellIndexes, v \in BandEdges : GetCellMut(i, v)
    \/ \E i \in CellIndexes : IncrementCell(i)
    \/ \E i \in CellIndexes : DecrementCell(i)

\* The cell store under its own operations.
SpecCell == CellInit /\ [][CellNext]_vars

\* ------------------------------------------------------ claims: cell store

\* The cell the run under way is applied to.
RunCell == ReadCell(data, history.i)

\* A run of op has applied it max - min + 1 times to a cell that held
\* from, in a band with min <= max.
FullTurn(op, from) ==
    /\ history.op = op
    /\ min_cell_value <= max_cell_value
    /\ history.start = from
    /\ history.count = max_cell_value - min_cell_value + 1

\* C8: in every band with min <= max, a cell that holds min and is
\* incremented max - min + 1 times holds min again, and a cell that holds
\* max and is decremented max - min + 1 times holds max again.
C8_WrapClosure ==
    /\ FullTurn("increment_cell", min_cell_value) => RunCell = min_cell_value
    /\ FullTurn("decrement_cell", max_cell_value) => RunCell = max_cell_value

\* A full turn of increments in a band that ends at the largest value of
\* the cell type and does not start at 0.
C8_Witness ==
    /\ FullTurn("increment_cell", min_cell_value)
    /\ max_cell_value = CellTypeMax
    /\ min_cell_value = 1

\* The cells other than i that the store had keep their values.
OthersKept(i) ==
    \A j \in 0..(Len(data) - 1) : j # i => data'[j + 1] = data[j + 1]

\* C9 (as stated): in a band with min <= max, increment_cell(i) sets a
\* cell equal to max_cell_value to min_cell_value and adds one to any other
\* cell; decrement_cell(i) sets a cell equal to min_cell_value to
\* max_cell_value and subtracts one from any other cell; no other cell
\* changes.
C9_WrapAtBandAsStated ==
    [][min_cell_value <= max_cell_value =>
       /\ (lastOp' = "increment_cell" /\ history' # history) =>
            /\ ReadCell(data', history'.i) =
                  IF ReadCell(data, history'.i) = max_cell_value
                  THEN min_cell_value
                  ELSE ReadCell(data, history'.i) + 1
            /\ OthersKept(history'.i)
       /\ (lastOp' = "decrement_cell" /\ history' # history) =>
            /\ ReadCell(data', history'.i) =
                  IF ReadCell(data, history'.i) = min_cell_value
                  THEN max_cell_value
                  ELSE ReadCell(data, history'.i) - 1
            /\ OthersKept(history'.i)]_vars

\* C9 (amended): increment_cell(i) sets a cell at or above max_cell_value
\* to min_cell_value and adds one to a cell below it; decrement_cell(i)
\* sets a cell at or below min_cell_value to max_cell_value and subtracts
\* one from a cell above it; the wrap is at the band, not at the range of
\* the cell type, and no other cell changes.
C9_WrapAtBand ==
    [][/\ (lastOp' = "increment_cell" /\ history' # history) =>
            /\ ReadCell(data', history'.i) =
                  IF ReadCell(data, history'.i) >= max_cell_value
                  THEN min_cell_value
                  ELSE ReadCell(data, history'.i) + 1
            /\ OthersKept(history'.i)
       /\ (lastOp' = "decrement_cell" /\ history' # history) =>
            /\ ReadCell(data', history'.i) =
                  IF ReadCell(data, history'.i) <= min_cell_value
                  THEN max_cell_value
                  ELSE ReadCell(data, history'.i) - 1
            /\ OthersKept(history'.i)]_vars

\* A cell at the minimum of a band narrower than the cell type, at index 1
\* after a written cell, has been decremented to the maximum of the band.
C9_Witness ==
    /\ history.op = "decrement_cell"
    /\ history.count = 1
    /\ history.i = 1
    /\ history.start = min_cell_value
    /\ min_cell_value > 0
    /\ max_cell_value < CellTypeMax
    /\ ReadCell(data, 1) = max_cell_value
    /\ ReadCell(data, 0) > 0

\* ------------------------------------------------------- interactive host

HostSources == SeqsUpTo(MaxHostSrcLen) \cup NamedSources

\* interactive_runtime: the state of the host when its loop starts.
HostInit == InitWith(HostSources) /\ NoInput

\* execute_command
Dispatch ==
    \E lower \in BandEdges, upper \in BandEdges : SetBounds(lower, upper)

\* The loop of interactive_runtime: a step or a command.
HostNext ==
    \/ Step
    \/ Dispatch

\* The machine in the interactive host.
SpecHost == HostInit /\ [][HostNext]_vars

\* C10: in a band with min <= max, a step that executes `+` leaves at
\* data_pointer the value increment_cell gives for the band, and a step
\* that executes `-` the value decrement_cell gives.
C10_StepWrapsAtBand ==
    [][(/\ pc = "idle" /\ lastOp' = "step" /\ cycles' = cycles + 1
        /\ min_cell_value <= max_cell_value) =>
          /\ instruction = "IncrementData" =>
                ReadCell(data', data_pointer) =
                    IncrementedCell(read_cell, min_cell_value, max_cell_value)
          /\ instruction = "DecrementData" =>
                ReadCell(data', data_pointer) =
                    DecrementedCell(read_cell, min_cell_value, max_cell_value)]_vars

\* ------------------------------------------ fix_cell of runtime/context.rs

\* The applications of fix_cell to one cell that are followed.
MaxFixes == 2

\* The values Command::SetData writes: those within MaxBand + 1 of 0 and of
\* the largest value of the cell type, so that a value is up to MaxBand + 1
\* outside a band.
WrittenValues ==
    (0..(MaxBand + 1)) \cup ((CellTypeMax - MaxBand - 1)..CellTypeMax)

\* fix_cell, `let diff = max - min`, as the subtraction wraps when it is
\* not checked.
BandDiff(min, max) == (max - min + CellTypeMax + 1) % (CellTypeMax + 1)

\* `max - min` overflows the unsigned cell type.
DiffOverflows(min, max) == max < min

\* fix_cell, the condition of the first loop.
AboveBand(cell, max) == cell > max

\* The second loop also moves a cell that is at the minimum.
BelowBand_AtMin(cell, min) == cell <= min

\* fix_cell, the condition of the second loop.
BelowBand(cell, min) == cell < min

\* The fields of Script that the cell store does not touch, pc apart.
position == <<instruction_pointer, cycles, last_executed_instruction, depth,
              refreshes>>

\* fix_cell is in one of its two loops.
fixing == pc \in {"fix_cell_down", "fix_cell_up"}

\* fix_cell up to its first loop: the cell that held v at index i is
\* fetched and diff computed, which panics when it overflows and overflow
\* is checked.
BeginFix(i, v) ==
    /\ history' = IF history.op = "fix_cell"
                  THEN history
                  ELSE [op |-> "fix_cell", i |-> i, count |-> 0, start |-> v]
    /\ IF overflow_checks /\ DiffOverflows(min_cell_value, max_cell_value)
       THEN panicked' = TRUE /\ pc' = pc
       ELSE panicked' = panicked /\ pc' = "fix_cell_down"
    /\ UNCHANGED <<program, command, host, keys, position, io, band, data_pointer>>

\* execute_command, Command::SetData with idx: Some(i): the write, then
\* fix_cell up to its first loop.
SetData(i, v) ==
    /\ pc = "idle"
    /\ ~panicked
    /\ history.op = "none"
    /\ data' = [Grown(data, i) EXCEPT ![i + 1] = v]
    /\ lastOp' = "SetData"
    /\ BeginFix(i, v)

\* RuntimeContext::fix_cell called on the cell as it is, up to its first
\* loop.
FixCell(i) ==
    /\ pc = "idle"
    /\ ~panicked
    /\ \/ history.op = "none"
       \/ /\ history.op = "fix_cell"
          /\ history.i = i
          /\ history.count < MaxFixes
    /\ data' = Grown(data, i)
    /\ lastOp' = "fix_cell"
    /\ BeginFix(i, ReadCell(data, i))

\* fix_cell: one evaluation of `while *cell > max { *cell = *cell - diff; }`
FixCellDown ==
    /\ pc = "fix_cell_down"
    /\ ~panicked
    /\ LET cell == ReadCell(data, history.i)
           diff == BandDiff(min_cell_value, max_cell_value)
       IN  IF AboveBand(cell, max_cell_value)
           THEN IF overflow_checks /\ cell < diff
                THEN /\ panicked' = TRUE
                     /\ UNCHANGED <<data, pc>>
                ELSE /\ data' = [data EXCEPT ![history.i + 1] =
                                    (cell - diff + CellTypeMax + 1)
                                        % (CellTypeMax + 1)]
                     /\ UNCHANGED <<pc, panicked>>
           ELSE /\ pc' = "fix_cell_up"
                /\ UNCHANGED <<data, panicked>>
    /\ UNCHANGED <<program, command, host, keys, position, io, band, data_pointer, history,
                   lastOp>>

\* fix_cell: one evaluation of `while *cell < min { *cell = *cell + diff; }`
\* and, when the loop ends, the return.
FixCellUp ==
    /\ pc = "fix_cell_up"
    /\ ~panicked
    /\ LET cell == ReadCell(data, history.i)
           diff == BandDiff(min_cell_value, max_cell_value)
       IN  IF BelowBand(cell, min_cell_value)
           THEN IF overflow_checks /\ cell + diff > CellTypeMax
                THEN /\ panicked' = TRUE
                     /\ UNCHANGED <<data, pc, history>>
                ELSE /\ data' = [data EXCEPT ![history.i + 1] =
                                    (cell + diff) % (CellTypeMax + 1)]
                     /\ UNCHANGED <<pc, panicked, history>>
           ELSE /\ pc' = "idle"
                /\ history' = [history EXCEPT !.count = @ + 1]
                /\ UNCHANGED <<data, panicked>>
    /\ UNCHANGED <<program, command, host, keys, position, io, band, data_pointer, lastOp>>

\* RuntimeContext::get_cell with no write through the reference it
\* returns.
GetCell(i) ==
    /\ pc = "idle"
    /\ ~panicked
    /\ history.op = "none"
    /\ data' = Grown(data, i)
    /\ history' = [op |-> "get_cell", i |-> i, count |-> 0,
                   start |-> ReadCell(data, i)]
    /\ lastOp' = "get_cell"
    /\ UNCHANGED <<program, command, host, keys, script, io, band, data_pointer, panicked>>

\* The store is set up (bounds set, cells written), then a cell is fetched,
\* or set by a command and fixed, or fixed as it is, and fixed again.
FixNext ==
    \/ /\ history.op = "none"
       /\ \E lower \in BandEdges, upper \in BandEdges : SetBounds(lower, upper)
    \/ /\ history.op = "none"
       /\ \E i \in CellIndexes, v \in BandEdges : GetCellMut(i, v)
    \/ \E i \in CellIndexes : GetCell(i)
    \/ \E i \in CellIndexes, v \in WrittenValues : SetData(i, v)
    \/ \E i \in CellIndexes : FixCell(i)
    \/ FixCellDown
    \/ FixCellUp

\* The cell store under fix_cell.
SpecFix == CellInit /\ [][FixNext]_vars

\* A loop of fix_cell that can make progress does.
SpecFixLive == SpecFix /\ WF_vars(FixCellDown) /\ WF_vars(FixCellUp)

\* -------------------------------------------------------- claims: fix_cell

\* fix_cell has returned n times on the cell of the run under way.
Fixed(n) ==
    /\ pc = "idle"
    /\ ~panicked
    /\ history.op = "fix_cell"
    /\ history.count = n

\* v is within the band.
InBand(v) == min_cell_value <= v /\ v <= max_cell_value

\* The cell after k applications of increment_cell.
RECURSIVE Incremented(_, _)
Incremented(cell, k) ==
    IF k = 0 THEN cell
    ELSE Incremented(IncrementedCell(cell, min_cell_value, max_cell_value),
                     k - 1)

\* The cell after k applications of decrement_cell.
RECURSIVE Decremented(_, _)
Decremented(cell, k) ==
    IF k = 0 THEN cell
    ELSE Decremented(DecrementedCell(cell, min_cell_value, max_cell_value),
                     k - 1)

\* C11: in a band with min < max and for 1 <= k <= max - min, a cell set
\* to max + k by SetData holds after fix_cell what a cell at max holds
\* after k increments, and a cell set to min - k what a cell at min holds
\* after k decrements.
C11_ClampIsWraparound ==
    (lastOp = "SetData" /\ Fixed(1) /\ min_cell_value < max_cell_value) =>
        LET v == history.start
            width == max_cell_value - min_cell_value
        IN  /\ (v > max_cell_value /\ v - max_cell_value <= width) =>
                  RunCell = Incremented(max_cell_value, v - max_cell_value)
            /\ (v < min_cell_value /\ min_cell_value - v <= width) =>
                  RunCell = Decremented(min_cell_value, min_cell_value - v)

\* C12: in a band with min <= max, the degenerate band min = max
\* included, a fix_cell that has entered its loops returns, and does not
\* panic.
C12_ClampTerminates ==
    (fixing /\ min_cell_value <= max_cell_value)
        ~> (pc = "idle" /\ ~panicked)

\* C13: in a band with min < max, fix_cell leaves a cell that is within
\* the band as it is, and once fix_cell has returned on a cell, applying it
\* again changes nothing of the store.
C13_ClampIdempotent ==
    /\ []((min_cell_value < max_cell_value /\ history.op = "fix_cell"
           /\ pc = "idle" /\ ~panicked /\ history.count >= 1
           /\ InBand(history.start)) => RunCell = history.start)
    /\ [][(min_cell_value < max_cell_value /\ history.op = "fix_cell"
           /\ history.count >= 1) => data' = data]_vars

\* fix_cell has returned a second time on a cell that SetData wrote out of
\* the band, in a band narrower than the cell type, and the cell is within
\* the band.
C13_Witness ==
    /\ Fixed(2)
    /\ min_cell_value < max_cell_value
    /\ max_cell_value - min_cell_value < CellTypeMax
    /\ ~InBand(history.start)
    /\ InBand(RunCell)

\* C14: read_cell gives zero at every index at or beyond the length of the
\* store; get_cell(i) makes the store exactly i + 1 cells long when i is at
\* or beyond its length and leaves its length otherwise, the new cells are
\* zero and every cell the store had is unchanged, so that read_cell gives
\* at every index what it gave before.
C14_GrowthFrame ==
    /\ [](\A j \in 0..(MaxData + 1) :
              j >= Len(data) => ReadCell(data, j) = 0)
    /\ [][(history' # history /\ history'.op = "get_cell") =>
            /\ Len(data') = IF Len(data) <= history'.i
                            THEN history'.i + 1
                            ELSE Len(data)
            /\ \A j \in 1..Len(data) : data'[j] = data[j]
            /\ \A j \in (Len(data) + 1)..Len(data') : data'[j] = 0
            /\ \A j \in 0..(MaxData + 1) :
                  ReadCell(data', j) = ReadCell(data, j)]_vars

\* get_cell(1) has grown a store of one written cell to two cells.
C14_Witness ==
    /\ history.op = "get_cell"
    /\ history.i = 1
    /\ Len(data) = 2
    /\ data[1] > 0
    /\ data[2] = 0

\* ---------------------------------------------------------- claims: loader

\* The eight characters of the language.
InstructionChars == {">", "<", "+", "-", ".", ",", "[", "]"}

\* The character indexes of source that hold a character of the language.
InstructionOffsets ==
    {u \in 0..(Len(source) - 1) : source[u + 1] \in InstructionChars}

\* C15: the instruction list is the characters of the source that are one
\* of `> < + - . , [ ]`, in the order of the source, each with its
\* character index; no other character gives an instruction; the offsets
\* increase strictly; the source and the list are those of the load for as
\* long as the program runs, and the instruction pointer and the cycle
\* counter are 0 after the load.
C15_LoadIsSubsequence ==
    /\ [](/\ Len(instructions) = Cardinality(InstructionOffsets)
          /\ \A k \in 1..Len(instructions) :
                /\ instructions[k].source_position \in InstructionOffsets
                /\ instructions[k].instruction =
                      from_char(source[instructions[k].source_position + 1])
                /\ instructions[k].instruction # None
          /\ \A k \in 1..(Len(instructions) - 1) :
                instructions[k].source_position
                    < instructions[k + 1].source_position
          /\ lastOp = "init" => instruction_pointer = 0 /\ cycles = 0)
    /\ [][source' = source /\ instructions' = instructions]_vars

\* A source with characters that are not of the language before and
\* between those that are has been loaded and stepped.
C15_Witness ==
    /\ Len(source) = 4
    /\ source[1] = "x"
    /\ source[3] = "x"
    /\ Len(instructions) = 2
    /\ instructions[1].source_position = 1
    /\ instructions[2].source_position = 3
    /\ cycles > 0

\* ------------------------------------- command lines: interactive/command.rs

\* A string is the sequence of its characters, each a one-character string;
\* offsets into it count from 0.

UpperCase == <<"A", "B", "C", "D", "E", "F", "G", "H", "I", "J", "K", "L",
               "M", "N", "O", "P", "Q", "R", "S", "T", "U", "V", "W", "X",
               "Y", "Z">>

\* The digits of char::to_digit, in the order of their values.
DigitChars == <<"0", "1", "2", "3", "4", "5", "6", "7", "8", "9", "a", "b",
                "c", "d", "e", "f", "g", "h", "i", "j", "k", "l", "m", "n",
                "o", "p", "q", "r", "s", "t", "u", "v", "w", "x", "y", "z">>

\* The least of a set of numbers.
Least(S) == CHOOSE x \in S : \A y \in S : x <= y

\* The lower case letter of each upper case letter.
LowerCase ==
    [c \in {UpperCase[k] : k \in 1..Len(UpperCase)} |->
        DigitChars[10 + Least({k \in 1..Len(UpperCase) : UpperCase[k] = c})]]

\* u8::to_ascii_lowercase, as UncasedStr compares characters.
Lower(c) == IF c \in DOMAIN LowerCase THEN LowerCase[c] ELSE c

\* The comparison sees the case.
Uncased_Exact(w) == w

\* UncasedStr: the string that a comparison without case sees.
Uncased(w) == [k \in 1..Len(w) |-> Lower(w[k])]

\* str::starts_with
StartsWith(w, prefix) ==
    /\ Len(prefix) <= Len(w)
    /\ SubSeq(w, 1, Len(prefix)) = prefix

\* char::is_whitespace
IsWhitespace(c) == c = " "

\* A CommandPart of the command line, without its source.
Part(start, end, state) ==
    [start |-> start, end |-> end, state |-> state, suggestion |-> <<>>,
     reason |-> "", arg |-> <<>>]

\* CommandPartState::Invalid(Some(reason)), arg the text formatted into it.
Invalid(part, reason, arg) ==
    [part EXCEPT !.state = "Invalid", !.suggestion = <<>>,
                 !.reason = reason, !.arg = arg]

\* CommandPart::ok
PartOk(s) == Part(0, Len(s), "Ok")

\* CommandPart::content
Content(s, part) == SubSeq(s, part.start + 1, part.end)

\* CommandPart::len
PartLen(part) == part.end - part.start

\* The white space at the start is kept.
trim_start_Untrimmed(s, part) == part

\* CommandPart::trim_start
trim_start(s, part) ==
    LET found == {k \in part.start..(part.end - 1) : ~IsWhitespace(s[k + 1])}
    IN  IF found # {}
        THEN [part EXCEPT !.start = Least(found)]
        ELSE [part EXCEPT !.start = part.end]

\* CommandPart::split_whitespace: the part up to the first white space and,
\* if it is not empty, the part from the first character after the white
\* space on; an Option is a sequence of no or one value.
split_whitespace(s, part) ==
    LET found == {k \in part.start..(part.end - 1) : IsWhitespace(s[k + 1])}
    IN  IF found = {}
        THEN [first |-> Part(part.start, part.end, "Ok"), second |-> <<>>]
        ELSE LET second ==
                     trim_start(s, Part(Least(found), part.end, "Ignored"))
             IN  [first |-> Part(part.start, Least(found), "Ok"),
                  second |-> IF PartLen(second) > 0 THEN <<second>>
                             ELSE <<>>]

\* The suggestion is the last of the choices that starts with the content.
autocomplete_uncased_Last(s, part, choices) ==
    LET found == {k \in 1..Len(choices) :
                      StartsWith(Uncased(choices[k]), Uncased(Content(s, part)))}
    IN  IF found = {} THEN part
        ELSE [part EXCEPT !.state = "Autocomplete",
                          !.suggestion =
                              choices[CHOOSE k \in found :
                                          \A j \in found : j <= k],
                          !.reason = "", !.arg = <<>>]

\* CommandPart::autocomplete_uncased: the part with the first of the
\* choices that starts with its content, in any case, as its suggestion.
autocomplete_uncased(s, part, choices) ==
    LET found == {k \in 1..Len(choices) :
                      StartsWith(Uncased(choices[k]), Uncased(Content(s, part)))}
    IN  IF found = {} THEN part
        ELSE [part EXCEPT !.state = "Autocomplete",
                          !.suggestion = choices[Least(found)],
                          !.reason = "", !.arg = <<>>]

\* TargetVariable::from_str: the variant of a variable name, compared
\* without case, None for any other.
from_str(w) ==
    LET u == Uncased(w)
    IN  CASE u = <<"i", "n", "s", "t", "r", "u", "c", "t", "i", "o", "n", " ", "p", "o", "i", "n", "t", "e", "r">>
               \/ u = <<"i", "p">> -> "InstructionPointer"
          [] u = <<"d", "a", "t", "a", " ", "p", "o", "i", "n", "t", "e", "r">>
               \/ u = <<"d", "p">> -> "DataPointer"
          [] u = <<"d", "a", "t", "a">> \/ u = <<"d">> -> "Data"
          [] u = <<"s", "p", "e", "e", "d">> -> "Speed"
          [] u = <<"b", "o", "u", "n", "d">> -> "Bound"
          [] OTHER -> None

AUTOCOMPLETE_COMMAND ==
    << <<"s", "t", "a", "r", "t">>, <<"p", "a", "u", "s", "e">>,
       <<"s", "e", "t">>, <<"l", "o", "a", "d">>, <<"q", "u", "i", "t">>,
       <<"e", "x", "e", "c", "u", "t", "e">> >>

AUTOCOMPLETE_SET_VARIABLE ==
    << <<"i", "n", "s", "t", "r", "u", "c", "t", "i", "o", "n", " ", "p", "o", "i", "n", "t", "e", "r">>,
       <<"i", "p">>,
       <<"d", "a", "t", "a", " ", "p", "o", "i", "n", "t", "e", "r">>,
       <<"d", "p">>, <<"d", "a", "t", "a">>, <<"d">>,
       <<"s", "p", "e", "e", "d">>, <<"b", "o", "u", "n", "d">> >>

EQUALS == <<"=">>

AUTOCOMPLETE_EQUAL == <<EQUALS>>

\* Result::Err(())
Err == [ok |-> FALSE, value |-> 0]

\* The value of each digit.
DigitValues ==
    [c \in {DigitChars[k] : k \in 1..Len(DigitChars)} |->
        Least({k \in 1..Len(DigitChars) : DigitChars[k] = c}) - 1]

\* char::to_digit(radix), the digit
DigitValue(c) == DigitValues[Lower(c)]

\* A digit of any radix is taken for a digit of this one.
HasDigit_AnyRadix(c, radix) == Lower(c) \in DOMAIN DigitValues

\* char::to_digit(radix) is Some
HasDigit(c, radix) ==
    Lower(c) \in DOMAIN DigitValues /\ DigitValue(c) < radix

RECURSIVE from_digits(_, _, _, _)
\* The loop of from_str_radix over the digits: acc * radix + digit, an
\* error at a character that is no digit of the radix and at a value above
\* max, the largest of the type.
from_digits(digits, radix, max, acc) ==
    IF digits = <<>> THEN [ok |-> TRUE, value |-> acc]
    ELSE IF ~HasDigit(Head(digits), radix) THEN Err
    ELSE IF acc > (max - DigitValue(Head(digits))) \div radix THEN Err
    ELSE from_digits(Tail(digits), radix, max,
                     acc * radix + DigitValue(Head(digits)))

\* CellType::from_str_radix of an unsigned type whose largest value is max:
\* no digits is an error, a leading `+` is allowed.
from_str_radix(str, radix, max) ==
    IF str = <<>> \/ str = <<"+">> \/ str = <<"-">> THEN Err
    ELSE IF Head(str) = "+" THEN from_digits(Tail(str), radix, max, 0)
    ELSE from_digits(str, radix, max, 0)

\* A literal with a prefix is read in radix 10 with its prefix.
parse_number_Decimal(s, current, max) ==
    LET parsed == from_str_radix(Content(s, current), 10, max)
    IN  [ok |-> parsed.ok, value |-> parsed.value,
         part |-> IF parsed.ok THEN current
                  ELSE Invalid(current, "not a valid number", <<>>)]

\* parse_number: the number of the part current in a type whose largest
\* value is max, and the part, Invalid if it is no number.
parse_number(s, current, max) ==
    LET str == Content(s, current)
        ustr == Uncased(str)
        first_two == SubSeq(ustr, 1, IF Len(ustr) < 2 THEN Len(ustr) ELSE 2)
        last_one == SubSeq(ustr, IF Len(ustr) = 0 THEN 1 ELSE Len(ustr),
                           Len(ustr))
        parsed ==
            CASE first_two = <<"0", "b">> ->
                     from_str_radix(SubSeq(str, 3, Len(str)), 2, max)
              [] first_two = <<"0", "o">> ->
                     from_str_radix(SubSeq(str, 3, Len(str)), 8, max)
              [] first_two = <<"0", "x">> ->
                     from_str_radix(SubSeq(str, 3, Len(str)), 16, max)
              [] first_two \notin {<<"0", "b">>, <<"0", "o">>, <<"0", "x">>}
                   /\ last_one = <<"h">> ->
                     from_str_radix(SubSeq(str, 1, Len(str) - 1), 16, max)
              [] OTHER -> from_str_radix(str, 10, max)
    IN  [ok |-> parsed.ok, value |-> parsed.value,
         part |-> IF parsed.ok THEN current
                  ELSE Invalid(current, "not a valid number", <<>>)]

\* parse_duration: humantime::parse_duration is not of this repository; a
\* duration is taken to be decimal digits and the unit `ms` or `s`, and its
\* value to be in milliseconds.
parse_duration(s, current) ==
    LET str == Content(s, current)
        unit == IF Len(str) >= 2 /\ SubSeq(str, Len(str) - 1, Len(str))
                                       = <<"m", "s">>
                THEN 2 ELSE 1
        number == from_str_radix(SubSeq(str, 1, Len(str) - unit), 10,
                                 UsizeMax \div 1000)
        parsed == IF Len(str) >= 2 /\ str[Len(str)] = "s"
                     /\ Head(str) # "+" /\ number.ok
                  THEN [ok |-> TRUE,
                        value |-> IF unit = 2 THEN number.value
                                  ELSE number.value * 1000]
                  ELSE Err
    IN  [ok |-> parsed.ok, value |-> parsed.value,
         part |-> IF parsed.ok THEN current
                  ELSE Invalid(current, "invalid duration", <<>>)]

\* expect_equals_part: the first word of remaining is pushed, Invalid if it
\* is not `=` and then with `=` as its suggestion if autocomplete is set;
\* the first component of the parsed is true on every path that is taken,
\* as the pattern of the `let ... else` always matches.
expect_equals_part(s, parts, remaining, auto) ==
    LET split == split_whitespace(s, remaining)
        equals_part ==
            IF Content(s, split.first) # EQUALS
            THEN LET invalid == Invalid(split.first, "expected '=', got '{}'",
                                        Content(s, split.first))
                 IN  IF auto
                     THEN autocomplete_uncased(s, invalid, AUTOCOMPLETE_EQUAL)
                     ELSE invalid
            ELSE split.first
    IN  [ok |-> TRUE, parts |-> Append(parts, equals_part),
         remaining |-> split.second]

\* CommandResult::Parsed
Parsed(parts, cmd) ==
    [kind |-> "Parsed", parts |-> parts, command |-> cmd, message |-> ""]

\* CommandResult::CannotContinue
CannotContinue(parts) ==
    [kind |-> "CannotContinue", parts |-> parts, command |-> NoCommand,
     message |-> ""]

\* CommandResult::TooShort, message "" for None
TooShort(parts, message) ==
    [kind |-> "TooShort", parts |-> parts, command |-> NoCommand,
     message |-> message]

\* parse_command does not return: it panics.
Aborted ==
    [kind |-> "Aborted", parts |-> <<>>, command |-> NoCommand,
     message |-> ""]

\* `if let Some(remaining) = remaining { parts.push(remaining) }`
PushSome(parts, remaining) == parts \o remaining

\* parse_command, the value of `set data`: the first word of remaining is
\* the value, of the cell type.
parse_command_data_value(s, parts, idx, remaining) ==
    LET split == split_whitespace(s, remaining)
        value == parse_number(s, split.first, CellTypeMax)
        pushed == PushSome(Append(parts, value.part), split.second)
    IN  IF ~value.ok THEN CannotContinue(pushed)
        ELSE Parsed(pushed, [NoCommand EXCEPT !.name = "SetData",
                                              !.idx = idx,
                                              !.value = value.value])

\* parse_command, TargetVariable::Data: the last part when no word follows
\* the first word after the variable; the suggestion of `=` is made
\* whatever the autocomplete flag is.
DataSuggestion(s, remaining, auto) ==
    autocomplete_uncased(s, remaining, AUTOCOMPLETE_EQUAL)

\* parse_command, TargetVariable::Data: remaining is what follows the
\* variable.
parse_command_data(s, parts, remaining, auto) ==
    LET split == split_whitespace(s, remaining)
        idx_part == split.first
        num == parse_number(s, idx_part, UsizeMax)
        is_correct == expect_equals_part(s, Append(parts, num.part),
                                         split.second[1], auto)
    IN  IF split.second = <<>>
        THEN CannotContinue(Append(parts, DataSuggestion(s, remaining, auto)))
        ELSE IF Content(s, idx_part) = EQUALS
        THEN parse_command_data_value(s, Append(parts, idx_part), <<>>,
                                      split.second[1])
        ELSE IF ~num.ok THEN CannotContinue(Append(parts, num.part))
        ELSE IF ~is_correct.ok THEN CannotContinue(is_correct.parts)
        ELSE IF is_correct.remaining = <<>>
        THEN TooShort(is_correct.parts, "expecting value")
        ELSE parse_command_data_value(s, is_correct.parts, <<num.value>>,
                                      is_correct.remaining[1])

\* parse_command, the variables other than data: remaining is what follows
\* the variable.
parse_command_variable(s, parts, variable, remaining, auto) ==
    LET is_correct == expect_equals_part(s, parts, remaining, auto)
        rest == is_correct.remaining[1]
        split == split_whitespace(s, rest)
        idx == parse_number(s, split.first, UsizeMax)
        speed == parse_duration(s, [rest EXCEPT !.state = "Ok"])
    IN  IF ~is_correct.ok THEN CannotContinue(is_correct.parts)
        ELSE IF is_correct.remaining = <<>>
        THEN TooShort(is_correct.parts, "expecting value")
        ELSE CASE variable \in {"InstructionPointer", "DataPointer"} ->
                      IF ~idx.ok
                      THEN CannotContinue(Append(is_correct.parts, idx.part))
                      ELSE Parsed(PushSome(is_correct.parts, split.second),
                                  [NoCommand EXCEPT
                                     !.name = IF variable = "InstructionPointer"
                                              THEN "SetInstructionPointer"
                                              ELSE "SetDataPointer",
                                     !.index = idx.value])
               [] variable = "Speed" ->
                      IF ~speed.ok
                      THEN CannotContinue(Append(is_correct.parts, speed.part))
                      ELSE Parsed(Append(is_correct.parts, speed.part),
                                  [NoCommand EXCEPT !.name = "SetSpeed",
                                                    !.speed = speed.value])
               [] variable = "Bound" -> Aborted

\* parse_command, `set`: remaining is what follows the command word.
parse_command_set(s, command_part, remaining, auto) ==
    LET parts == <<command_part>>
        split == split_whitespace(s, remaining[1])
        variable_part == split.first
        variable == from_str(Content(s, variable_part))
        unknown == Invalid(variable_part, "unknown variable '{}'",
                           Content(s, variable_part))
    IN  IF remaining = <<>> THEN TooShort(parts, "variable name required")
        ELSE IF variable = None
        THEN CannotContinue(PushSome(
                 Append(parts,
                        IF auto
                        THEN autocomplete_uncased(s, unknown,
                                                  AUTOCOMPLETE_SET_VARIABLE)
                        ELSE unknown),
                 split.second))
        ELSE IF split.second = <<>>
        THEN TooShort(Append(parts, variable_part),
                      IF variable = "Data" THEN "expecting index or ="
                      ELSE "expecting =")
        ELSE IF variable = "Data"
        THEN parse_command_data(s, Append(parts, variable_part),
                                split.second[1], auto)
        ELSE parse_command_variable(s, Append(parts, variable_part),
                                    variable, split.second[1], auto)

\* parse_command, `load`: remaining is what follows the command word; fs is
\* what the file system answers for the path: whether it exists, whether
\* it is a file, and the suggestion try_autocomplete finds, if any.
parse_command_load(s, command_part, remaining, auto, fs) ==
    LET parts == <<[command_part EXCEPT !.state = "Ok"]>>
        ok_part == [remaining[1] EXCEPT !.state = "Ok"]
        checked == IF ~fs.exists
                   THEN Invalid(ok_part, "file not found", <<>>)
                   ELSE IF ~fs.is_file
                   THEN Invalid(ok_part, "path does not refer to a file",
                                <<>>)
                   ELSE ok_part
        file_part == IF auto /\ fs.suggestion # <<>>
                     THEN [checked EXCEPT !.state = "Autocomplete",
                                          !.suggestion = fs.suggestion[1],
                                          !.reason = "", !.arg = <<>>]
                     ELSE checked
    IN  IF remaining = <<>> THEN TooShort(parts, "expected file name")
        ELSE Parsed(Append(parts, file_part),
                    [NoCommand EXCEPT !.name = "LoadScriptFromFile",
                                      !.path = Content(s, file_part)])

\* parse_command
parse_command(s, auto, fs) ==
    LET split == split_whitespace(s, PartOk(s))
        command_part == split.first
        word == Uncased(Content(s, command_part))
        unrecognised == Invalid(command_part, "unrecognised command '{}'",
                                Content(s, command_part))
    IN  IF Len(s) < 1 THEN TooShort(<<>>, "")
        ELSE CASE word = <<"s", "t", "a", "r", "t">> ->
                      Parsed(<<command_part>>,
                             [NoCommand EXCEPT !.name = "Start"])
               [] word = <<"p", "a", "u", "s", "e">> ->
                      Parsed(<<command_part>>,
                             [NoCommand EXCEPT !.name = "Pause"])
               [] word = <<"s", "e", "t">> ->
                      parse_command_set(s, command_part, split.second, auto)
               [] word = <<"l", "o", "a", "d">> ->
                      parse_command_load(s, command_part, split.second, auto,
                                         fs)
               [] word = <<"q", "u", "i", "t">> ->
                      Parsed(<<[command_part EXCEPT !.state = "Ok"]>>,
                             [NoCommand EXCEPT !.name = "Quit"])
               [] OTHER ->
                      CannotContinue(
                          <<IF auto
                            THEN autocomplete_uncased(s, unrecognised,
                                                      AUTOCOMPLETE_COMMAND)
                            ELSE unrecognised>>)

\* ------------------------------------------------------------ command lines

\* The words of the command lines made of any words.
MaxWords == 3

\* The words lines are made of: command words, variables, `=`, a number,
\* a word that is nothing, and the empty word, which gives a line white
\* space at its start, at its end, or twice between two words.
Words ==
    { <<>>, <<"s", "e", "t">>, <<"s", "t", "a", "r", "t">>,
      <<"l", "o", "a", "d">>, <<"i", "p">>, <<"d", "a", "t", "a">>,
      <<"i", "n", "s", "t", "r", "u", "c", "t", "i", "o", "n">>,
      <<"p", "o", "i", "n", "t", "e", "r">>, <<"=">>, <<"5">>, <<"x">>,
      <<"b", "o", "u", "n", "d">> }

RECURSIVE Join(_)
\* The words with one space between each two.
Join(ws) ==
    IF ws = <<>> THEN <<>>
    ELSE IF Len(ws) = 1 THEN ws[1]
    ELSE ws[1] \o <<" ">> \o Join(Tail(ws))

\* The lines of up to MaxWords words.
WordLines == {Join(ws) : ws \in UNION {[1..k -> Words] : k \in 0..MaxWords}}

\* Numeric literals, each with the number it is read as.
NumberLiterals ==
    { [text |-> <<"0">>, value |-> 0],
      [text |-> <<"5">>, value |-> 5],
      [text |-> <<"3", "1">>, value |-> 31],
      [text |-> <<"0", "x", "1", "F">>, value |-> 31],
      [text |-> <<"0", "X", "1", "f">>, value |-> 31],
      [text |-> <<"1", "F", "h">>, value |-> 31],
      [text |-> <<"1", "f", "H">>, value |-> 31],
      [text |-> <<"0", "o", "3", "7">>, value |-> 31],
      [text |-> <<"0", "b", "1", "1", "1", "1", "1">>, value |-> 31],
      [text |-> <<"2", "5", "5">>, value |-> CellTypeMax] }

\* The words in the place of a value: the literals, and words that are no
\* number of the cell type or no number at all.
ValueWords ==
    {n.text : n \in NumberLiterals}
        \cup { <<"2", "5", "6">>, <<"0", "x">>, <<"0", "b", "2">>,
               <<"h">>, <<"z">>, <<"2", "s">>, <<"1", "0", "0", "m", "s">>,
               <<"-", "1">> }

\* The words in the place of `=`.
EqualsWords == {<<"=">>, <<"x">>, <<"=", "=">>}

\* The spellings of the variables but data, as sequences of words.
TargetPhrases ==
    { <<<<"i", "p">>>>, <<<<"I", "P">>>>, <<<<"d", "p">>>>,
      <<<<"i", "n", "s", "t", "r", "u", "c", "t", "i", "o", "n">>,
        <<"p", "o", "i", "n", "t", "e", "r">>>>,
      <<<<"d", "a", "t", "a">>, <<"p", "o", "i", "n", "t", "e", "r">>>>,
      <<<<"s", "p", "e", "e", "d">>>>, <<<<"b", "o", "u", "n", "d">>>>,
      <<<<"s", "p", "e", "e">>>> }

\* `set <variable> <=> <value>`, with and without a word after the value.
TargetLines ==
    {Join(<<<<"s", "e", "t">>>> \o target \o <<e, v>> \o more) :
        target \in TargetPhrases, e \in EqualsWords, v \in ValueWords,
        more \in {<<>>, <<<<"x">>>>}}

\* The index of `set data`: none, a word of its own, or in parentheses
\* after `data`.
DataPhrases ==
    {<<d>> : d \in {<<"d", "a", "t", "a">>, <<"d">>}}
        \cup {<<d, n.text>> : d \in {<<"d", "a", "t", "a">>, <<"d">>},
                              n \in NumberLiterals}
        \cup {<<<<"d", "a", "t", "a">>, <<"z">>>>}
        \cup {<<<<"d", "a", "t", "a">> \o <<"(">> \o n.text \o <<")">>>> :
                 n \in NumberLiterals}

\* `set data [<index>] <=> <value>` and what is left of it without its
\* value and without its `=`.
DataLines ==
    {Join(<<<<"s", "e", "t">>>> \o target \o rest) :
        target \in DataPhrases,
        rest \in {<<e, v>> : e \in EqualsWords, v \in ValueWords}
                   \cup {<<e>> : e \in EqualsWords} \cup {<<>>}}

\* Words that are no variable, each with the first of the variables that
\* starts with it, in any case, if there is one.
TypedVariables ==
    { [text |-> <<"s", "p", "e", "e">>, suggestion |-> <<<<"s", "p", "e", "e", "d">>>>],
      [text |-> <<"S", "p", "E", "e">>, suggestion |-> <<<<"s", "p", "e", "e", "d">>>>],
      [text |-> <<"i">>,
       suggestion |-> <<<<"i", "n", "s", "t", "r", "u", "c", "t", "i", "o", "n", " ", "p", "o", "i", "n", "t", "e", "r">>>>],
      [text |-> <<"i", "n", "s", "t", "r", "u", "c", "t", "i", "o", "n">>,
       suggestion |-> <<<<"i", "n", "s", "t", "r", "u", "c", "t", "i", "o", "n", " ", "p", "o", "i", "n", "t", "e", "r">>>>],
      [text |-> <<"D", "A">>,
       suggestion |-> <<<<"d", "a", "t", "a", " ", "p", "o", "i", "n", "t", "e", "r">>>>],
      [text |-> <<"d", "a", "t">>,
       suggestion |-> <<<<"d", "a", "t", "a", " ", "p", "o", "i", "n", "t", "e", "r">>>>],
      [text |-> <<"b">>, suggestion |-> <<<<"b", "o", "u", "n", "d">>>>],
      [text |-> <<"q">>, suggestion |-> <<>>],
      [text |-> <<"s", "p", "e", "e", "d", "y">>, suggestion |-> <<>>] }

\* `set <word>`, the word no variable, alone and with words after it.
TypedLines ==
    {Join(<<<<"s", "e", "t">>, w.text>> \o more) :
        w \in TypedVariables, more \in {<<>>, <<<<"=">>>>, <<<<"=">>, <<"5">>>>}}

\* Lines whose first word is no command, or a command in another case.
FirstWordLines ==
    { <<"b", "o", "g", "u", "s">>, <<"b", "o", "g", "u", "s", " ", "s", "e", "t", " ", "i", "p", " ", "=", " ", "5">>,
      <<"e", "x", "e", "c", "u", "t", "e">>, <<"s", "t", "a">>, <<"Q", "U", "I", "T">>,
      <<"S", "t", "a", "r", "t", " ", "x">>, <<"P", "A", "U", "S", "E">>, <<"L", "o", "a", "d", " ", "f", ".", "b", "f">>,
      <<"S", "e", "T">> }

\* The command lines that are parsed.
CommandStrings ==
    WordLines \cup TargetLines \cup DataLines \cup TypedLines
        \cup FirstWordLines

\* What the file system answers for a path.
FileSystems ==
    {fs \in [exists : BOOLEAN, is_file : BOOLEAN,
             suggestion : {<<>>, <<<<"f", ".", "b", "f">>>>}] :
        fs.is_file => fs.exists}

\* handle_event_command, Enter, and CommandInput: the line is parsed; a
\* panic of parse_command ends the process.
ParseCommand ==
    /\ pc = "idle"
    /\ ~panicked
    /\ result.kind = "none"
    /\ \E fs \in FileSystems :
          result' = parse_command(cmd_str, autocomplete, fs)
    /\ panicked' = (result'.kind = "Aborted")
    /\ lastOp' = "parse_command"
    /\ UNCHANGED <<program, host, keys, script, io, band, history, data,
                   data_pointer, cmd_str, autocomplete>>

\* A command line and an autocomplete flag have been entered.
ParseInit ==
    /\ InitWith({<<>>})
    /\ cmd_str \in CommandStrings
    /\ autocomplete \in BOOLEAN

ParseNext == ParseCommand

\* parse_command on the command lines.
SpecParse == ParseInit /\ [][ParseNext]_vars

\* ---------------------------------------------------- claims: command lines

\* The command line has been parsed with autocomplete disabled.
ParsedDisabled == result.kind # "none" /\ ~autocomplete

\* Command::SetData{idx, value}
SetDataOf(idx, value) ==
    [NoCommand EXCEPT !.name = "SetData", !.idx = idx, !.value = value]

\* `set data(<index>) = <value>`
InParentheses(n, v) ==
    Join(<<<<"s", "e", "t">>,
           <<"d", "a", "t", "a">> \o <<"(">> \o n.text \o <<")">>,
           EQUALS, v.text>>)

\* `set data <index> = <value>`
IndexWord(n, v) ==
    Join(<<<<"s", "e", "t">>, <<"d", "a", "t", "a">>, n.text,
           EQUALS, v.text>>)

SetLine(target, n) ==
    Join(<<<<"s", "e", "t">>>> \o target \o <<EQUALS, n.text>>)

\* Command::SetInstructionPointer{idx} and Command::SetDataPointer{idx}
SetPointerOf(name, idx) == [NoCommand EXCEPT !.name = name, !.index = idx]

\* C17: `set instruction pointer = N` is Parsed as the
\* SetInstructionPointer{idx: N} that `set ip = N` is parsed as, and `set
\* data pointer = N` as the SetDataPointer{idx: N} of `set dp = N`.
C17_LongSpellings ==
    \A n \in NumberLiterals :
        /\ result.kind # "none" =>
              /\ cmd_str = SetLine(<<<<"i", "p">>>>, n) =>
                    /\ result.kind = "Parsed"
                    /\ result.command =
                          SetPointerOf("SetInstructionPointer", n.value)
              /\ cmd_str = SetLine(<<<<"d", "p">>>>, n) =>
                    /\ result.kind = "Parsed"
                    /\ result.command =
                          SetPointerOf("SetDataPointer", n.value)
        /\ result.kind # "none" =>
              /\ cmd_str = SetLine(<<<<"i", "n", "s", "t", "r", "u", "c", "t", "i", "o", "n">>,
                                     <<"p", "o", "i", "n", "t", "e", "r">>>>, n) =>
                    /\ result.kind = "Parsed"
                    /\ result.command =
                          SetPointerOf("SetInstructionPointer", n.value)
              /\ cmd_str = SetLine(<<<<"d", "a", "t", "a">>,
                                     <<"p", "o", "i", "n", "t", "e", "r">>>>, n) =>
                    /\ result.kind = "Parsed"
                    /\ result.command =
                          SetPointerOf("SetDataPointer", n.value)

\* The states of the parts of the result.
PartStates == {result.parts[k].state : k \in DOMAIN result.parts}

\* `set <target> <word> <value>`, the word not `=`
NotEqualsLine(target, e, v) ==
    Join(<<<<"s", "e", "t">>>> \o target \o <<e, v>>)

\* C18: no part of a Parsed result is Invalid, and a `set` line whose word
\* between the variable (or the index of data) and the value is not `=` is
\* CannotContinue.
C18_ParsedOnlyIfMatched ==
    /\ result.kind = "Parsed" => "Invalid" \notin PartStates
    /\ \A target \in {<<<<"i", "p">>>>, <<<<"d", "p">>>>,
                      <<<<"d", "a", "t", "a">>, <<"5">>>>},
          e \in EqualsWords \ {EQUALS}, v \in ValueWords :
          (result.kind # "none" /\ cmd_str = NotEqualsLine(target, e, v)) =>
              result.kind = "CannotContinue"

\* C19: for every command line and either autocomplete flag parse_command
\* returns Parsed, CannotContinue or TooShort, and does not abort.
C19_ParseIsTotal ==
    result.kind # "none" =>
        /\ result.kind \in {"Parsed", "CannotContinue", "TooShort"}
        /\ ~panicked

\* C20: with autocomplete disabled no part of the result is in the
\* Autocomplete state.
C20_NoSuggestionUnlessAsked ==
    ParsedDisabled => "Autocomplete" \notin PartStates

\* The line is the words it is made of with one space between each two:
\* no white space at its start, at its end, or twice in a row.
Tidy(s) ==
    \A k \in 1..Len(s) :
        IsWhitespace(s[k]) =>
            /\ 1 < k
            /\ k < Len(s)
            /\ ~IsWhitespace(s[k + 1])

\* The words that follow a line in the lines it is the first words of.
Extensions ==
    UNION {[1..k -> {<<"i", "p">>, <<"=">>, <<"5">>, <<"2", "s">>}] :
              k \in 1..3}

\* The line s followed by the words ext.
Extended(s, ext) == IF s = <<>> THEN Join(ext) ELSE s \o <<" ">> \o Join(ext)

\* A file system in which every path is a file.
AllFiles == [exists |-> TRUE, is_file |-> TRUE, suggestion |-> <<>>]

\* The line is the first words of a line that is Parsed.
StartsAParsedLine ==
    /\ Tidy(cmd_str)
    /\ \E ext \in Extensions :
          parse_command(Extended(cmd_str, ext), autocomplete, AllFiles).kind
              = "Parsed"

\* C21: a line that is the first words of a line that is Parsed, and is
\* not Parsed itself, is TooShort, not CannotContinue; the empty line is
\* TooShort with no parts.
C21_PrefixIsTooShort ==
    /\ (result.kind # "none" /\ cmd_str = <<>>) =>
          result.kind = "TooShort" /\ result.parts = <<>>
    /\ (result.kind \notin {"none", "Parsed"} /\ StartsAParsedLine) =>
          result.kind = "TooShort"

\* Words that are no number: no digits after the prefix or before the
\* suffix, a digit that is none of the radix, a sign that is not `+`, a
\* unit.
BadNumbers ==
    { <<"0", "x">>, <<"0", "b", "2">>, <<"h">>, <<"z">>,
      <<"-", "1">>, <<"2", "s">> }

\* A number above the largest value of the cell type.
TooLarge == <<"2", "5", "6">>

\* The last part of the result is Invalid as no number.
LastIsNoNumber ==
    /\ result.parts # <<>>
    /\ result.parts[Len(result.parts)].state = "Invalid"
    /\ result.parts[Len(result.parts)].reason = "not a valid number"

\* `set data = <word>`
DataValueLine(w) ==
    Join(<<<<"s", "e", "t">>, <<"d", "a", "t", "a">>, EQUALS, w>>)

\* C22: a literal is read in radix 2 after `0b`, 8 after `0o`, 16 after
\* `0x` and before `h`, in any case, and in radix 10 otherwise, as an index
\* and as a cell value; a word whose digits are not of its radix, and a
\* value above the largest of its type, make the part Invalid and the
\* result CannotContinue.
C22_RadixOfLiterals ==
    result.kind # "none" =>
        /\ \A n \in NumberLiterals :
              /\ cmd_str = SetLine(<<<<"i", "p">>>>, n) =>
                    /\ result.kind = "Parsed"
                    /\ result.command.index = n.value
              /\ cmd_str = DataValueLine(n.text) =>
                    /\ result.kind = "Parsed"
                    /\ result.command = SetDataOf(<<>>, n.value)
        /\ \A w \in BadNumbers :
              (\/ cmd_str = Join(<<<<"s", "e", "t">>, <<"i", "p">>, EQUALS, w>>)
               \/ cmd_str = DataValueLine(w)) =>
                    result.kind = "CannotContinue" /\ LastIsNoNumber
        /\ cmd_str = DataValueLine(TooLarge) =>
              result.kind = "CannotContinue" /\ LastIsNoNumber

\* `set ip = 1fH` has been parsed as SetInstructionPointer{idx: 31}.
C22_Witness ==
    /\ cmd_str = Join(<<<<"s", "e", "t">>, <<"i", "p">>, EQUALS, <<"1", "f", "H">>>>)
    /\ result.kind = "Parsed"
    /\ result.command = SetPointerOf("SetInstructionPointer", 31)

\* `set <word>` and what may follow the word.
StartsWithSet(w) ==
    \/ cmd_str = Join(<<<<"s", "e", "t">>, w>>)
    \/ StartsWith(cmd_str, Join(<<<<"s", "e", "t">>, w>>) \o <<" ">>)

\* C23: with autocomplete enabled, a word after `set` that is no variable
\* and that a variable of the list starts with, in any case, is a part in
\* the Autocomplete state whose suggestion is the first such variable of
\* the list; a word that no variable starts with stays Invalid.
C23_FirstCandidate ==
    \A w \in TypedVariables :
        (result.kind # "none" /\ autocomplete /\ StartsWithSet(w.text)) =>
            /\ result.kind = "CannotContinue"
            /\ Content(cmd_str, result.parts[2]) = w.text
            /\ IF w.suggestion = <<>>
               THEN result.parts[2].state = "Invalid"
               ELSE /\ result.parts[2].state = "Autocomplete"
                    /\ result.parts[2].suggestion = w.suggestion[1]

\* `set spee` has been parsed with autocomplete enabled and `speed` is
\* suggested.
C23_Witness ==
    /\ autocomplete
    /\ cmd_str = Join(<<<<"s", "e", "t">>, <<"s", "p", "e", "e">>>>)
    /\ result.kind = "CannotContinue"
    /\ result.parts[2].state = "Autocomplete"
    /\ result.parts[2].suggestion = <<"s", "p", "e", "e", "d">>

\* The line up to its first white space.
FirstWord ==
    LET spaces == {k \in 1..Len(cmd_str) : IsWhitespace(cmd_str[k])}
    IN  IF spaces = {} THEN cmd_str
        ELSE SubSeq(cmd_str, 1, Least(spaces) - 1)

\* The first word is one of start, pause, set, load, quit in lower case.
CommandWords ==
    { <<"s", "t", "a", "r", "t">>, <<"p", "a", "u", "s", "e">>, <<"s", "e", "t">>,
      <<"l", "o", "a", "d">>, <<"q", "u", "i", "t">> }

\* The letters of w in lower case, by the alphabet.
LowerOf(w) ==
    [k \in 1..Len(w) |->
        IF \E j \in 1..Len(UpperCase) : UpperCase[j] = w[k]
        THEN DigitChars[10 + CHOOSE j \in 1..Len(UpperCase) :
                                 UpperCase[j] = w[k]]
        ELSE w[k]]

\* C24: with autocomplete disabled, a line that is not empty and whose
\* first word is none of start, pause, set, load, quit in any case is
\* CannotContinue, its only part the first word, Invalid as an unrecognised
\* command; a first word that is one of them in any case is a part that is
\* Ok, unless the parse aborts.
C24_UnrecognisedCommand ==
    (ParsedDisabled /\ cmd_str # <<>>) =>
        IF LowerOf(FirstWord) \notin CommandWords
        THEN /\ result.kind = "CannotContinue"
             /\ Len(result.parts) = 1
             /\ result.parts[1].state = "Invalid"
             /\ result.parts[1].reason = "unrecognised command '{}'"
             /\ result.parts[1].arg = FirstWord
             /\ result.parts[1].start = 0
             /\ result.parts[1].end = Len(FirstWord)
        ELSE result.kind # "Aborted" =>
                 /\ result.parts[1].state = "Ok"
                 /\ Content(cmd_str, result.parts[1]) = FirstWord

\* `bogus` has been parsed with autocomplete disabled.
C24_Witness ==
    /\ ParsedDisabled
    /\ cmd_str = <<"b", "o", "g", "u", "s">>
    /\ result.kind = "CannotContinue"
    /\ result.parts[1].state = "Invalid"

\* Every part lies within the line, the parts are in the order of the line
\* and no two overlap, and the first starts at 0.
PartsInOrder ==
    /\ \A k \in DOMAIN result.parts :
          /\ 0 <= result.parts[k].start
          /\ result.parts[k].start <= result.parts[k].end
          /\ result.parts[k].end <= Len(cmd_str)
    /\ \A k \in 1..(Len(result.parts) - 1) :
          result.parts[k].end <= result.parts[k + 1].start
    /\ result.parts # <<>> => result.parts[1].start = 0

MaxCommands == 1

\* The indexes the commands name: two cells of the store and the largest
\* usize.
CommandIndexes == {0, 1, UsizeMax}

RECURSIVE Decimal(_)
\* The decimal digits of n, as the operator types them.
Decimal(n) ==
    LET digit == <<"0", "1", "2", "3", "4", "5", "6", "7", "8", "9">>
    IN  IF n < 10 THEN <<digit[n + 1]>>
        ELSE Append(Decimal(n \div 10), digit[(n % 10) + 1])

\* The command lines that are entered: `set data`, with and without an
\* index, `set ip`, `set dp`, `set speed`, `load` and the commands of one
\* word.
EnteredLines ==
    {Join(<<<<"s", "e", "t">>, <<"d", "a", "t", "a">>, EQUALS, Decimal(v)>>) :
        v \in WrittenValues}
    \cup {Join(<<<<"s", "e", "t">>, <<"d", "a", "t", "a">>, Decimal(i),
                 EQUALS, Decimal(v)>>) :
             i \in {1, UsizeMax}, v \in WrittenValues}
    \cup {Join(<<<<"s", "e", "t">>, <<"i", "p">>, EQUALS, Decimal(i)>>) :
             i \in CommandIndexes}
    \cup {Join(<<<<"s", "e", "t">>, <<"d", "p">>, EQUALS, Decimal(i)>>) :
             i \in CommandIndexes}
    \cup { <<"s", "e", "t", " ", "s", "p", "e", "e", "d", " ", "=", " ", "2", "s">>,
           <<"l", "o", "a", "d", " ", "f", ".", "b", "f">>,
           <<"s", "t", "a", "r", "t">>, <<"p", "a", "u", "s", "e">>,
           <<"q", "u", "i", "t">> }

\* handle_event_command, Enter: the commands that parse_command, called
\* without autocomplete, returns as Parsed for the lines and that
\* execute_command is called with.
Commands ==
    LET results == {parse_command(s, FALSE, fs) :
                       s \in EnteredLines, fs \in FileSystems}
    IN  {r.command : r \in {x \in results : x.kind = "Parsed"}}

\* What a file holds when it is read: a program that executes every
\* instruction, with a loop that is skipped and a loop that is repeated,
\* a program of two instructions, and nothing.
FileContents ==
    { <<"[", ".", "]", "+", "+", "[", "-", "]", ">", ",", ".", "<">>,
      <<"-", "x", ">">>,
      <<>> }

\* The errors of std::fs::read_to_string: there is no such file, or it is
\* not UTF-8.
IoErrors == {"NotFound", "InvalidData"}

\* A CommandOutput: its style and its message, with the value the message
\* is formatted from.
CommandOutput(style, message, speed, path) ==
    [style |-> style, message |-> message, speed |-> speed, path |-> path]

\* The error is not reported.
cmd_error_Silent(message) == command_output

\* InteractiveState::cmd_error
cmd_error(message) ==
    Append(command_output,
           CommandOutput("COMMAND_OUTPUT_ERROR", "Error: " \o message, 0, <<>>))

\* InteractiveState::cmd_info
cmd_info(message, speed, path) ==
    Append(command_output,
           CommandOutput("COMMAND_OUTPUT_INFO", message, speed, path))

\* The program keeps its place when it is replaced.
Loaded_InPlace(content) ==
    [source |-> content, instructions |-> ScriptNew(content),
     instruction_pointer |-> instruction_pointer, cycles |-> cycles]

\* Script::new: the Script that is constructed from the content of a file.
Loaded(content) ==
    [source |-> content, instructions |-> ScriptNew(content),
     instruction_pointer |-> 0, cycles |-> 0]

\* An absent index is the first cell.
TargetIndex_First(cmd) == IF cmd.idx = <<>> THEN 0 ELSE cmd.idx[1]

\* execute_command, Command::SetData: idx.unwrap_or(data_pointer)
TargetIndex(cmd) == IF cmd.idx = <<>> THEN data_pointer ELSE cmd.idx[1]

\* The fields of InteractiveState that only Start, Pause, SetSpeed and Quit
\* set.
settings == <<should_quit, execution_paused, execution_clock_speed>>

\* execute_command is called with cmd, between two steps, in a host that
\* has not quit.
Executes(cmd) ==
    /\ pc = "idle"
    /\ ~panicked
    /\ ~should_quit
    /\ Len(executed) < MaxCommands
    /\ executed' = Append(executed, cmd)
    /\ lastOp' = cmd.name

\* execute_command, Command::Start
ExecuteStart(cmd) ==
    /\ cmd.name = "Start"
    /\ Executes(cmd)
    /\ execution_paused' = FALSE
    /\ UNCHANGED <<program, command, script, io, band, history, data,
                   data_pointer, panicked, should_quit, execution_clock_speed,
                   command_output>>

\* execute_command, Command::Pause
ExecutePause(cmd) ==
    /\ cmd.name = "Pause"
    /\ Executes(cmd)
    /\ execution_paused' = TRUE
    /\ UNCHANGED <<program, command, script, io, band, history, data,
                   data_pointer, panicked, should_quit, execution_clock_speed,
                   command_output>>

\* The index is validated: a pointer past the end of the program is set to
\* the end.
ExecuteSetInstructionPointer_Validated(cmd) ==
    /\ cmd.name = "SetInstructionPointer"
    /\ Executes(cmd)
    /\ instruction_pointer' = IF cmd.index > Len(instructions)
                              THEN Len(instructions) ELSE cmd.index
    /\ UNCHANGED <<program, command, io, band, history, data, data_pointer,
                   panicked, settings, command_output, cycles,
                   last_executed_instruction, pc, depth, refreshes>>

\* execute_command, Command::SetInstructionPointer
ExecuteSetInstructionPointer(cmd) ==
    /\ cmd.name = "SetInstructionPointer"
    /\ Executes(cmd)
    /\ instruction_pointer' = cmd.index
    /\ UNCHANGED <<program, command, io, band, history, data, data_pointer,
                   panicked, settings, command_output, cycles,
                   last_executed_instruction, pc, depth, refreshes>>

\* execute_command, Command::SetDataPointer
ExecuteSetDataPointer(cmd) ==
    /\ cmd.name = "SetDataPointer"
    /\ Executes(cmd)
    /\ data_pointer' = cmd.index
    /\ UNCHANGED <<program, command, script, io, band, history, data,
                   panicked, settings, command_output>>

\* execute_command, Command::SetData: the write through get_cell, then
\* fix_cell up to its first loop. get_cell panics at an index that is more
\* cells than memory holds, and at usize::MAX, where without overflow
\* checks idx + 1 is 0 and resize(0) empties the store before the index is
\* out of bounds. One SetData is followed in a run.
ExecuteSetData(cmd) ==
    /\ cmd.name = "SetData"
    /\ Executes(cmd)
    /\ history.op = "none"
    /\ LET idx == TargetIndex(cmd)
       IN  IF idx > MaxData
           THEN /\ panicked' = TRUE
                /\ data' = IF idx = UsizeMax /\ ~overflow_checks
                           THEN <<>> ELSE data
                /\ UNCHANGED <<history, pc>>
           ELSE /\ data' = [Grown(data, idx) EXCEPT ![idx + 1] = cmd.value]
                /\ history' = [op |-> "fix_cell", i |-> idx, count |-> 0,
                               start |-> cmd.value]
                /\ IF /\ overflow_checks
                      /\ DiffOverflows(min_cell_value, max_cell_value)
                   THEN panicked' = TRUE /\ pc' = pc
                   ELSE panicked' = panicked /\ pc' = "fix_cell_down"
    /\ UNCHANGED <<program, command, position, io, band, data_pointer,
                   settings, command_output>>

\* execute_command, Command::SetSpeed
ExecuteSetSpeed(cmd) ==
    /\ cmd.name = "SetSpeed"
    /\ Executes(cmd)
    /\ execution_clock_speed' = cmd.speed
    /\ command_output' = cmd_info("Set speed to {}", cmd.speed, <<>>)
    /\ UNCHANGED <<program, command, script, io, band, history, data,
                   data_pointer, panicked, should_quit, execution_paused>>

\* execute_command, Command::LoadScriptFromFile: the file is read and the
\* script replaced, or the error of the read reported.
ExecuteLoadScriptFromFile(cmd) ==
    /\ cmd.name = "LoadScriptFromFile"
    /\ Executes(cmd)
    /\ \/ \E content \in FileContents :
             LET loaded == Loaded(content)
             IN  /\ source' = loaded.source
                 /\ instructions' = loaded.instructions
                 /\ instruction_pointer' = loaded.instruction_pointer
                 /\ cycles' = loaded.cycles
                 /\ command_output' = cmd_info("Loaded file {}", 0, cmd.path)
       \/ \E e \in IoErrors :
             /\ command_output' = cmd_error(e)
             /\ UNCHANGED <<source, instructions, instruction_pointer, cycles>>
    /\ UNCHANGED <<overflow_checks, command, io, band, history, data,
                   data_pointer, panicked, settings,
                   last_executed_instruction, pc, depth, refreshes>>

\* execute_command, Command::Quit
ExecuteQuit(cmd) ==
    /\ cmd.name = "Quit"
    /\ Executes(cmd)
    /\ should_quit' = TRUE
    /\ UNCHANGED <<program, command, script, io, band, history, data,
                   data_pointer, panicked, execution_paused,
                   execution_clock_speed, command_output>>

\* execute_command on the commands of the lines.
ExecuteCommand ==
    \E cmd \in Commands :
        \/ ExecuteStart(cmd)
        \/ ExecutePause(cmd)
        \/ ExecuteSetInstructionPointer(cmd)
        \/ ExecuteSetDataPointer(cmd)
        \/ ExecuteSetData(cmd)
        \/ ExecuteSetSpeed(cmd)
        \/ ExecuteLoadScriptFromFile(cmd)
        \/ ExecuteQuit(cmd)

\* interactive_runtime on a script that main has loaded from a file.
CommandInit == InitWith(FileContents) /\ NoInput

\* The loop of interactive_runtime: a step, or a command line that is
\* entered and executed, with the loops of fix_cell.
CommandNext ==
    \/ Step
    \/ ExecuteCommand /\ UNCHANGED keys
    \/ FixCellDown
    \/ FixCellUp

\* The host under steps and commands.
SpecCommand == CommandInit /\ [][CommandNext]_vars

\* The loop of interactive_runtime when the band is set and then one cell
\* set by a command.
SetDataNext ==
    \/ Step
    \/ history.op = "none" /\ executed = <<>> /\ Dispatch
    \/ \E cmd \in Commands : ExecuteSetData(cmd) /\ UNCHANGED keys
    \/ FixCellDown
    \/ FixCellUp

\* The host under steps, a band that is set, and SetData.
SpecSetData == CommandInit /\ [][SetDataNext]_vars

\* ----------------------------------------------- claims: execute_command

\* The command execute_command was last called with.
LastExecuted == executed[Len(executed)]

\* A step of the model in which execute_command is called with a command
\* of the variant name.
Dispatched(name) ==
    /\ Len(executed') = Len(executed) + 1
    /\ executed'[Len(executed')].name = name

\* The index of the SetData that was last executed: its idx, or the data
\* pointer, which the command leaves where it is.
SetDataIndex ==
    IF LastExecuted.idx = <<>> THEN data_pointer ELSE LastExecuted.idx[1]

\* The cells of d but the one at index i.
OtherCells(d, i) == [k \in (0..(Len(d) - 1)) \ {i} |-> d[k + 1]]

\* C26: SetData{idx, value} writes value at idx, or at the data pointer
\* when idx is absent, and fix_cell then changes that cell only; when
\* fix_cell has returned the cell is within [min_cell_value,
\* max_cell_value] and is value if value was within it. Throughout, the
\* data pointer, the instruction pointer, the cycle counter and the other
\* cells that existed are as they were.
C26_SetDataWritesThenClamps ==
    [][/\ (Dispatched("SetData") /\ ~panicked') =>
             LET cmd == executed'[Len(executed')]
                 idx == IF cmd.idx = <<>> THEN data_pointer ELSE cmd.idx[1]
             IN  /\ ReadCell(data', idx) = cmd.value
                 /\ Len(data') > idx
                 /\ OtherCells(data, idx)
                        = [k \in DOMAIN OtherCells(data, idx) |-> data'[k + 1]]
                 /\ UNCHANGED <<data_pointer, instruction_pointer, cycles>>
       /\ (fixing /\ ~panicked') =>
             /\ OtherCells(data', SetDataIndex) = OtherCells(data, SetDataIndex)
             /\ UNCHANGED <<data_pointer, instruction_pointer, cycles>>
       /\ (fixing /\ pc' = "idle") =>
             LET cell == ReadCell(data', SetDataIndex)
             IN  /\ InBand(cell)
                 /\ InBand(LastExecuted.value) => cell = LastExecuted.value
      ]_vars

\* The message that was last pushed to the command output has the style.
LastOutput(style) ==
    /\ command_output # <<>>
    /\ command_output[Len(command_output)].style = style

\* The step of the model is a load that reports a loaded file.
LoadSucceeds ==
    /\ Dispatched("LoadScriptFromFile")
    /\ Len(command_output') = Len(command_output) + 1
    /\ command_output'[Len(command_output')].style = "COMMAND_OUTPUT_INFO"

\* C27: a load whose file is read replaces the source by the content of
\* the file and the instructions by those loaded from it, with the
\* instruction pointer and the cycle counter at 0, and leaves the cells,
\* the length of the store, the data pointer and the band as they were.
C27_LoadReplacesProgram ==
    [][LoadSucceeds =>
          /\ source' \in FileContents
          /\ instructions' = ScriptNew(source')
          /\ instruction_pointer' = 0
          /\ cycles' = 0
          /\ UNCHANGED <<data, data_pointer, min_cell_value, max_cell_value>>
      ]_vars

\* A file has been loaded in the middle of a run: the store has a nonzero
\* cell at the data pointer, which is not at 0, and the program that was
\* loaded has instructions and stands at its start.
C27_Witness ==
    /\ lastOp = "LoadScriptFromFile"
    /\ LastOutput("COMMAND_OUTPUT_INFO")
    /\ instructions # <<>>
    /\ instruction_pointer = 0
    /\ cycles = 0
    /\ data_pointer = 1
    /\ ReadCell(data, data_pointer) # 0
    /\ last_executed_instruction # NoInstruction

\* C28: a load whose file is not read does not panic, pushes one message,
\* an error, to the command output, and leaves the source, the
\* instructions, the instruction pointer, the cycle counter, the store and
\* the pause flag as they were.
C28_UnreadableFileIsReported ==
    [][(Dispatched("LoadScriptFromFile") /\ ~LoadSucceeds) =>
          /\ ~panicked'
          /\ Len(command_output') = Len(command_output) + 1
          /\ SubSeq(command_output', 1, Len(command_output)) = command_output
          /\ command_output'[Len(command_output')].style
                = "COMMAND_OUTPUT_ERROR"
          /\ UNCHANGED <<source, instructions, instruction_pointer, cycles,
                         data, data_pointer, execution_paused>>
      ]_vars

\* The load of a file that is not read has been reported in the middle of
\* a run.
C28_Witness ==
    /\ lastOp = "LoadScriptFromFile"
    /\ LastOutput("COMMAND_OUTPUT_ERROR")
    /\ ~panicked
    /\ cycles > 0
    /\ instruction_pointer > 0
    /\ data # <<>>

\* C29: execute_command does not panic, whatever command of the lines it
\* is called with and whatever state the host is in.
C29_DispatchNeverFails ==
    [][Len(executed') > Len(executed) => ~panicked']_vars

\* C30: SetInstructionPointer{idx} sets the instruction pointer to idx and
\* SetDataPointer{idx} the data pointer to idx, whatever idx is, and
\* nothing else of the host changes. After SetInstructionPointer with idx
\* at or past the end of the program there are no remaining instructions
\* and a step changes nothing; with idx before the end, the next step,
\* also of a machine that had halted, executes the instruction at idx.
C30_PointersAreSetAsGiven ==
    [][/\ Dispatched("SetInstructionPointer") =>
             /\ instruction_pointer' = executed'[Len(executed')].index
             /\ instruction_pointer' >= Len(instructions)
                    => ~has_remaining_instructions'
             /\ UNCHANGED <<program, command, io, band, history, data,
                            data_pointer, panicked, settings, command_output,
                            cycles, last_executed_instruction, pc, depth,
                            refreshes>>
       /\ Dispatched("SetDataPointer") =>
             /\ data_pointer' = executed'[Len(executed')].index
             /\ UNCHANGED <<program, command, script, io, band, history, data,
                            panicked, settings, command_output>>
       /\ (lastOp = "SetInstructionPointer" /\ executed' = executed) =>
             IF LastExecuted.index >= Len(instructions)
             THEN UNCHANGED <<program, command, host, keys, script, io, band,
                              history, data, data_pointer, panicked>>
             ELSE last_executed_instruction'
                      = instructions[LastExecuted.index + 1]
      ]_vars

\* A program of two instructions has halted after both, the instruction
\* pointer has been set back to the second, and a step has executed it
\* again: it is the third step and has moved the data pointer to 2.
C30_Witness ==
    /\ Len(instructions) = 2
    /\ executed # <<>>
    /\ LastExecuted.name = "SetInstructionPointer"
    /\ LastExecuted.index = 1
    /\ lastOp = "step"
    /\ cycles = 3
    /\ data_pointer = 2
    /\ last_executed_instruction = instructions[2]
    /\ ~has_remaining_instructions

\* ------------------------------------------------------------ claims: steps

\* C31: a step that is called with an instruction at the pointer and
\* returns has counted one cycle, whatever the instruction and however far
\* a bracket search has moved the pointer: the counter is as it was while
\* the search is under way and one more when the step ends. The counter
\* never decreases.
C31_StepCountsOnce ==
    [][/\ cycles' >= cycles
       /\ pc' # "idle" => cycles' = cycles
       /\ (/\ pc' = "idle"
           /\ ~panicked'
           /\ pc # "idle" \/ has_remaining_instructions)
             => cycles' = cycles + 1
      ]_vars

\* A step has ended a forward search that moved the pointer over three
\* instructions or more, after other steps.
C31_Witness ==
    /\ Executed("JumpForwardsIfZero")
    /\ instruction_pointer >= LastIndex + 3
    /\ cycles >= 2
    /\ refreshes > cycles + 2

\* C32: a step that executes an instruction and ends without a search
\* calls refresh once, with the pointer one further. A search calls it
\* after each movement of the pointer by one position, forwards or
\* backwards, and the step that ends the search once more, with the
\* pointer where the search left it or one further: from one call of
\* refresh to the next the pointer differs by at most 1, and a forward
\* search that moves the pointer by n calls refresh n times before the
\* call at the end of the step.
C32_RefreshAtEveryMovement ==
    [][/\ (/\ pc = "idle" /\ pc' = "idle" /\ ~panicked'
           /\ has_remaining_instructions /\ cycles' # cycles) =>
             /\ refreshes' = refreshes + 1
             /\ instruction_pointer' = instruction_pointer + 1
       /\ (pc = "idle" /\ pc' # "idle") =>
             UNCHANGED <<instruction_pointer, refreshes>>
       /\ (pc = "jump_forwards" /\ ~panicked') =>
             LET moved == instruction_pointer' - instruction_pointer
             IN  /\ moved \in {0, 1}
                 /\ refreshes' = refreshes + moved
                                   + (IF pc' = "idle" THEN 1 ELSE 0)
       /\ (pc = "jump_backwards" /\ ~panicked') =>
             IF pc' = "idle"
             THEN /\ instruction_pointer'
                        \in {instruction_pointer - 1, instruction_pointer}
                  /\ refreshes' = refreshes + 2
             ELSE /\ instruction_pointer' = instruction_pointer - 1
                  /\ refreshes' = refreshes + 1
      ]_vars

\* C33: a step that executes `<` with the data pointer at 0 fails: it
\* panics, the data pointer is not wrapped to a large index, and the store
\* is as it was.
C33_DecrementAtZeroFails ==
    [][(/\ pc = "idle" /\ ~panicked
        /\ instruction = "DecrementDataPointer"
        /\ data_pointer = 0
        /\ lastOp' # "noop" /\ last_executed_instruction' # NoInstruction
        /\ cycles < MaxCycles) =>
          /\ panicked'
          /\ data_pointer' = 0
          /\ data' = data
      ]_vars

\* ------------------------------------------------------------ key events

\* Command lines are entered at most MaxHistory times.
MaxHistory == 2

\* The Tab key is followed while the output holds fewer messages.
MaxOutput == 2

\* The clock speeds the speed keys are followed up to, in ms.
MaxSpeed == 100

\* The modifiers the speed keys are pressed with.
KeyModifiers == {"NONE", "SHIFT"}

\* speed_diff, in ms
speed_diff(key_modifiers) ==
    CASE key_modifiers = "ALT" -> 25
      [] key_modifiers = "SHIFT" -> 50
      [] key_modifiers = "CONTROL" -> 200
      [] OTHER -> 100

\* The script and the cell store.
machine == <<program, script, io, band, history, data, data_pointer>>

\* interactive_runtime hands a key event to the handler of the activity:
\* the host is between two steps, has not aborted and has not quit.
HandlesEvent(act) ==
    /\ pc = "idle"
    /\ ~panicked
    /\ ~should_quit
    /\ activity = act

\* handle_event_normal, 'q'
NormalKeyQ ==
    /\ HandlesEvent("Normal")
    /\ should_quit' = TRUE
    /\ lastOp' = "q"
    /\ UNCHANGED <<machine, panicked, command, keys, execution_paused,
                   execution_clock_speed, command_output, executed>>

\* handle_event_normal, 'n': InteractiveState::execute
NormalKeyN ==
    /\ HandlesEvent("Normal")
    /\ Step

\* handle_event_normal, ' '
NormalKeySpace ==
    /\ HandlesEvent("Normal")
    /\ execution_paused' = ~execution_paused
    /\ lastOp' = "space"
    /\ UNCHANGED <<machine, panicked, command, keys, should_quit,
                   execution_clock_speed, command_output, executed>>

\* handle_event_normal, ':'
NormalKeyColon ==
    /\ HandlesEvent("Normal")
    /\ activity' = "Command"
    /\ lastOp' = "colon"
    /\ UNCHANGED <<machine, panicked, command, host, input, current_result,
                   command_history, history_selected>>

\* handle_event_normal, KeyCode::Up: the clock speed grows by speed_diff
\* (checked_add does not overflow at the speeds that are followed).
NormalKeyUp ==
    /\ HandlesEvent("Normal")
    /\ \E key_modifiers \in KeyModifiers :
          /\ execution_clock_speed + speed_diff(key_modifiers) <= MaxSpeed
          /\ execution_clock_speed' =
                 execution_clock_speed + speed_diff(key_modifiers)
    /\ lastOp' = "Up"
    /\ UNCHANGED <<machine, panicked, command, keys, should_quit,
                   execution_paused, command_output, executed>>

\* handle_event_normal, KeyCode::Down: the clock speed shrinks by
\* speed_diff, and stays when checked_sub finds it would be negative.
NormalKeyDown ==
    /\ HandlesEvent("Normal")
    /\ \E key_modifiers \in KeyModifiers :
          execution_clock_speed' =
              IF execution_clock_speed >= speed_diff(key_modifiers)
              THEN execution_clock_speed - speed_diff(key_modifiers)
              ELSE execution_clock_speed
    /\ lastOp' = "Down"
    /\ UNCHANGED <<machine, panicked, command, keys, should_quit,
                   execution_paused, command_output, executed>>

\* The clock steps the program whether it is paused or not.
ClockElapsed_Paused ==
    /\ pc = "idle"
    /\ ~should_quit
    /\ Step

\* interactive_runtime, the test after the event of an iteration: the
\* host is not paused and the clock speed has elapsed since the last step.
ClockElapsed ==
    /\ pc = "idle"
    /\ ~should_quit
    /\ ~execution_paused
    /\ Step

\* What the file system answers at the command line: there is no file, or
\* there is the file of the path and it is the suggestion.
KeyFileSystems ==
    {fs \in FileSystems :
        /\ fs.exists = fs.is_file
        /\ fs.is_file = (fs.suggestion # <<>>)}

\* The lines the operator types at the command line: a command, and a
\* command that is not complete.
KeyLines == { <<"s", "t", "a", "r", "t">>, <<"s", "e", "t">> }

\* The lines the operator types while the program runs: the commands that
\* start and pause it.
LoopLines == { <<"s", "t", "a", "r", "t">>, <<"p", "a", "u", "s", "e">> }

\* The input lines: what has been typed of a line so far.
KeyInputs ==
    UNION {{SubSeq(line, 1, n) : n \in 0..Len(line)} :
              line \in KeyLines \cup LoopLines}

\* parse_command on the input lines, computed once for each line; the
\* handlers of the keys are given it as parse.
ParseTable ==
    [s \in KeyInputs, auto \in BOOLEAN, fs \in KeyFileSystems |->
        parse_command(s, auto, fs)]

\* CommandInputState::set_input_value: the input line becomes value and
\* is parsed with autocomplete; a panic of parse_command ends the process.
set_input_value(value, parse) ==
    /\ input' = value
    /\ \E fs \in KeyFileSystems : current_result' = parse[value, TRUE, fs]
    /\ panicked' = (current_result'.kind = "Aborted")

\* CommandInputState::set_input_value_to_history, selected the selection
\* it finds: the unwrap of history.get panics.
set_input_value_to_history(selected, parse) ==
    IF selected = <<>>
    THEN set_input_value(<<>>, parse)
    ELSE IF selected[1] < Len(command_history)
    THEN set_input_value(command_history[selected[1] + 1], parse)
    ELSE panicked' = TRUE /\ UNCHANGED <<input, current_result>>

\* handle_event_command, any other key: a character of one of the lines
\* is typed at the end of the input line, which is parsed again.
CommandKeyOther(lines, parse) ==
    /\ HandlesEvent("Command")
    /\ \E line \in lines :
          /\ Len(line) > Len(input)
          /\ SubSeq(line, 1, Len(input)) = input
          /\ set_input_value(SubSeq(line, 1, Len(input) + 1), parse)
    /\ lastOp' = "key"
    /\ UNCHANGED <<machine, command, host, activity, command_history,
                   history_selected>>

\* handle_event_command, KeyCode::Esc
CommandKeyEsc ==
    /\ HandlesEvent("Command")
    /\ activity' = "Normal"
    /\ lastOp' = "Esc"
    /\ UNCHANGED <<machine, panicked, command, host, input, current_result,
                   command_history, history_selected>>

\* The selection moves past the oldest entry.
Older_PastTheOldest(selected) ==
    IF selected = <<>> THEN <<0>> ELSE <<selected[1] + 1>>

\* handle_event_command, KeyCode::Up: the selection moves to the next
\* older entry and stays on the oldest.
Older(selected) ==
    IF selected = <<>> THEN <<0>>
    ELSE IF selected[1] + 1 >= Len(command_history)
    THEN <<Len(command_history) - 1>>
    ELSE <<selected[1] + 1>>

\* handle_event_command, KeyCode::Up: nothing with an empty history;
\* the input line becomes the selected entry.
CommandKeyUp(parse) ==
    /\ HandlesEvent("Command")
    /\ Len(command_history) # 0
    /\ history_selected' = Older(history_selected)
    /\ set_input_value_to_history(history_selected', parse)
    /\ lastOp' = "Up"
    /\ UNCHANGED <<machine, command, host, activity, command_history>>

\* handle_event_command, KeyCode::Down: the selection moves to the next
\* newer entry and is dropped at the newest.
Newer(selected) ==
    IF selected = <<>> \/ selected = <<0>> THEN <<>>
    ELSE <<selected[1] - 1>>

\* handle_event_command, KeyCode::Down: nothing with an empty history;
\* the input line becomes the selected entry, or empty.
CommandKeyDown(parse) ==
    /\ HandlesEvent("Command")
    /\ Len(command_history) # 0
    /\ history_selected' = Newer(history_selected)
    /\ set_input_value_to_history(history_selected', parse)
    /\ lastOp' = "Down"
    /\ UNCHANGED <<machine, command, host, activity, command_history>>

\* handle_event_command, KeyCode::Tab: the kinds of result it looks at.
Completes(kind) == kind \in {"TooShort", "Parsed"}

\* handle_event_command, KeyCode::Tab: with a suggestion in the last part
\* that is not shorter than the input line, the line is extended by what
\* the part lacks of the suggestion; with no suggestion there, the host
\* says that it cannot complete.
CommandKeyTab(parse) ==
    /\ HandlesEvent("Command")
    /\ lastOp' = "Tab"
    /\ IF Completes(current_result.kind) /\ current_result.parts # <<>>
       THEN LET last_part == current_result.parts[Len(current_result.parts)]
                suggestion == last_part.suggestion
            IN  IF last_part.state = "Autocomplete"
                THEN /\ IF Len(suggestion) < Len(input)
                        THEN UNCHANGED <<input, current_result, panicked>>
                        ELSE set_input_value(
                                 input \o SubSeq(suggestion,
                                                 PartLen(last_part) + 1,
                                                 Len(suggestion)),
                                 parse)
                     /\ UNCHANGED command_output
                ELSE /\ command_output' =
                            cmd_info("cannot autocomplete :/", 0, <<>>)
                     /\ UNCHANGED <<input, current_result, panicked>>
       ELSE UNCHANGED <<input, current_result, panicked, command_output>>
    /\ UNCHANGED <<machine, command, settings, executed, activity,
                   command_history, history_selected>>

\* execute_command
execute_command(cmd) ==
    \/ ExecuteStart(cmd)
    \/ ExecutePause(cmd)
    \/ ExecuteSetInstructionPointer(cmd)
    \/ ExecuteSetDataPointer(cmd)
    \/ ExecuteSetData(cmd)
    \/ ExecuteSetSpeed(cmd)
    \/ ExecuteLoadScriptFromFile(cmd)
    \/ ExecuteQuit(cmd)

\* Enter leaves the line in the input.
Entered_LineKept(line) ==
    /\ input' = line
    /\ command_history' = <<line>> \o command_history
    /\ history_selected' = <<>>
    /\ current_result' = empty
    /\ activity' = "Normal"

\* handle_event_command, KeyCode::Enter, what it does whatever the line
\* is: the input is reset, the line pushed at the front of the history,
\* the selection dropped, the current result emptied, and the activity is
\* Normal when the handler returns.
Entered(line) ==
    /\ input' = <<>>
    /\ command_history' = <<line>> \o command_history
    /\ history_selected' = <<>>
    /\ current_result' = empty
    /\ activity' = "Normal"

\* handle_event_command, KeyCode::Enter: the line is parsed without
\* autocomplete; a command is executed, any other result reported as one
\* error (the reasons of the Invalid parts are joined into the message of
\* CannotContinue); a panic of parse_command ends the process.
CommandKeyEnter(parse) ==
    /\ HandlesEvent("Command")
    /\ Len(command_history) < MaxHistory
    /\ Entered(input)
    /\ \E fs \in KeyFileSystems :
          \E parsed \in {parse[input, FALSE, fs]} :
              \/ /\ parsed.kind = "Parsed"
                 /\ execute_command(parsed.command)
              \/ /\ parsed.kind = "CannotContinue"
                 /\ command_output' =
                        cmd_error("could not parse command ({})")
                 /\ lastOp' = "Enter"
                 /\ UNCHANGED <<machine, panicked, command, settings,
                                executed>>
              \/ /\ parsed.kind = "TooShort"
                 /\ command_output' =
                        cmd_error("command is not complete (and maybe has errors)")
                 /\ lastOp' = "Enter"
                 /\ UNCHANGED <<machine, panicked, command, settings,
                                executed>>
              \/ /\ parsed.kind = "Aborted"
                 /\ panicked' = TRUE
                 /\ lastOp' = "Enter"
                 /\ UNCHANGED <<machine, command, host>>

\* interactive_runtime on a script that main has loaded.
KeysInit == InitWith({<<"-", "x", ">">>}) /\ NoInput

\* handle_event_command and the key that opens the command line.
KeysNext ==
    \E parse \in {ParseTable} :
        \/ NormalKeyColon
        \/ CommandKeyOther(KeyLines, parse)
        \/ CommandKeyEnter(parse)
        \/ CommandKeyEsc
        \/ CommandKeyUp(parse)
        \/ CommandKeyDown(parse)
        \/ Len(command_output) < MaxOutput /\ CommandKeyTab(parse)

\* The command line of the host under its keys, the program at rest.
SpecKeys == KeysInit /\ [][KeysNext]_vars

\* interactive_runtime on the script that main has loaded: a program that
\* executes every instruction, with a loop that is skipped and a loop that
\* is repeated.
LoopInit ==
    /\ InitWith({<<"[", ".", "]", "+", "+", "[", "-", "]", ">", ",", ".", "<">>})
    /\ NoInput

\* The loop of interactive_runtime: the keys of handle_event_normal, the
\* clock, the searches of the step under way, and the command line, which
\* is opened until MaxCommands lines have been entered.
LoopNext ==
    \E parse \in {ParseTable} :
        \/ NormalKeyQ
        \/ NormalKeyN
        \/ NormalKeySpace
        \/ Len(command_history) < MaxCommands /\ NormalKeyColon
        \/ NormalKeyUp
        \/ NormalKeyDown
        \/ ClockElapsed
        \/ JumpForwardsLoop
        \/ JumpBackwardsLoop
        \/ CommandKeyOther(LoopLines, parse)
        \/ CommandKeyEnter(parse)
        \/ CommandKeyEsc

\* The host under its keys and its clock.
SpecLoop == LoopInit /\ [][LoopNext]_vars

\* ------------------------------------------------------ claims: the host

\* C40: in the interactive host a step that executes `,` always completes:
\* it calls the read callback, stores a value at the data pointer, moves
\* the instruction pointer to the next instruction and counts the step,
\* and the session does not abort, also when the host's input buffer holds
\* no byte.
C40_InputAlwaysCompletes ==
    [][reads' # reads =>
          /\ ~panicked'
          /\ instruction_pointer' = instruction_pointer + 1
          /\ cycles' = cycles + 1
          /\ Len(data') > data_pointer
          /\ data'[data_pointer + 1] \in InputValues]_vars


\* The loop of interactive_runtime when the band is set once, on the empty
\* store before anything else, and the program then runs with cells set by
\* commands.
BandNext ==
    \/ lastOp = "init" /\ Dispatch
    \/ Step
    \/ \E cmd \in Commands : ExecuteSetData(cmd) /\ UNCHANGED keys
    \/ FixCellDown
    \/ FixCellUp

\* The host under steps and SetData in a band that is fixed from the start.
SpecBand == CommandInit /\ [][BandNext]_vars

\* C35: in a fixed band with min = 0 < max, starting from the empty store,
\* after any interleaving of steps that read no input and of SetData
\* commands (a SetData has ended when its clamp has), every stored cell
\* lies in [min, max].
C35_BandInvariant ==
    (/\ min_cell_value = 0
     /\ 0 < max_cell_value
     /\ reads = 0
     /\ ~fixing
     /\ ~panicked)
        => \A i \in 1..Len(data) : InBand(data[i])


\* ---------------------------------------------------- claims: suggestions

\* The command line with the text of the part replaced by its suggestion.
Completed(s, part) ==
    SubSeq(s, 1, part.start) \o part.suggestion \o SubSeq(s, part.end + 1, Len(s))

\* The segments of the parsed line that carry a suggestion and are the
\* command word or the target of `set`.
SuggestedSegments ==
    {k \in 1..Len(result.parts) :
        /\ result.parts[k].state = "Autocomplete"
        /\ \/ k = 1
           \/ /\ k = 2
              /\ Uncased(Content(cmd_str, result.parts[1])) = <<"s", "e", "t">>}

\* C36: with autocomplete enabled, when the command word or the target of
\* `set` receives a suggestion, the line with that segment replaced by the
\* suggestion parses with that segment recognised (state Ok): every
\* candidate is a keyword the tokenizer matches.
C36_SuggestionsAreAccepted ==
    (lastOp = "parse_command" /\ autocomplete /\ result.kind # "Aborted")
        => \A k \in SuggestedSegments, fs \in FileSystems :
              LET again == parse_command(Completed(cmd_str, result.parts[k]),
                                         TRUE, fs)
              IN  \/ again.kind = "Aborted"
                  \/ /\ Len(again.parts) >= k
                     /\ again.parts[k].state = "Ok"
                     /\ again.parts[k].start = result.parts[k].start
                     /\ Content(Completed(cmd_str, result.parts[k]),
                                again.parts[k]) = result.parts[k].suggestion


\* ---------------------------------------------------- claims: key events

\* The last part of the current result.
LastPart == current_result.parts[Len(current_result.parts)]

\* The last part of the current result carries a suggestion that is at
\* least as long as the input line.
Suggests ==
    /\ current_result.parts # <<>>
    /\ LastPart.state = "Autocomplete"
    /\ Len(LastPart.suggestion) >= Len(input)

\* C37: in command mode, Tab pressed when the last segment of the live
\* parse carries a suggestion at least as long as the input replaces the
\* input with the input extended by what the segment lacks of the
\* suggestion, whichever kind the live parse has.
C37_TabCompletes ==
    [][(activity = "Command" /\ Suggests /\ lastOp' = "Tab")
          => input' = input \o SubSeq(LastPart.suggestion,
                                      PartLen(LastPart) + 1,
                                      Len(LastPart.suggestion))]_vars

\* The history selection is absent or the index of an entry.
SelectionInRange ==
    \/ history_selected = <<>>
    \/ history_selected[1] < Len(command_history)

\* C38: after any sequence of Enter, Esc, Up and Down in command mode the
\* history selection is absent or an index below the length of the
\* history, and the look-up of the selected entry has not failed; Enter
\* resets the selection to absent, and Up at the oldest entry stays on it.
C38_SelectionInRange ==
    /\ [](SelectionInRange /\ ~panicked)
    /\ [][/\ command_history' # command_history => history_selected' = <<>>
          /\ (/\ activity = "Command"
              /\ lastOp' = "Up"
              /\ history_selected = <<Len(command_history) - 1>>)
                 => history_selected' = history_selected]_vars

\* Up has been pressed until the selection is on the older of two
\* entries, and the input line is that entry.
C38_Witness ==
    /\ lastOp = "Up"
    /\ Len(command_history) = 2
    /\ history_selected = <<1>>
    /\ input = command_history[2]
    /\ command_history[1] # command_history[2]

\* The input line parses, without autocomplete, to kind.
ParsesTo(kind) ==
    \A fs \in KeyFileSystems : ParseTable[input, FALSE, fs].kind = kind

\* C39: Enter on a line that parses, without autocomplete, to TooShort or
\* CannotContinue leaves the program, the instruction pointer, the cycle
\* counter, the cell store, the data pointer, the band, the pause flag and
\* the clock speed unchanged, appends exactly one error to the command
\* output, clears the input line and returns the activity to Normal.
C39_EnterOnBadLine ==
    [][(/\ command_history' # command_history
        /\ ParsesTo("TooShort") \/ ParsesTo("CannotContinue"))
          => /\ UNCHANGED <<source, instructions, instruction_pointer,
                            cycles, data, data_pointer, band,
                            execution_paused, execution_clock_speed>>
             /\ Len(command_output') = Len(command_output) + 1
             /\ SubSeq(command_output', 1, Len(command_output))
                    = command_output
             /\ command_output'[Len(command_output')].style
                    = "COMMAND_OUTPUT_ERROR"
             /\ input' = <<>>
             /\ activity' = "Normal"]_vars

\* Enter has been pressed on `set`, which is TooShort, and then on `sta`,
\* which is CannotContinue.
C39_Witness ==
    /\ lastOp = "Enter"
    /\ command_history = << <<"s", "t", "a">>, <<"s", "e", "t">> >>
    /\ Len(command_output) = 2
    /\ \A k \in 1..2 : command_output[k].style = "COMMAND_OUTPUT_ERROR"
    /\ command_output[1].message # command_output[2].message
    /\ input = <<>>
    /\ activity = "Normal"


\* ------------------------------------------------------ claims: the loop

\* What execute_command can change apart from the pause flag.
others == <<machine, panicked, should_quit, execution_clock_speed,
            command_output>>

\* C34: Start sets the pause flag to running and Pause sets it to paused,
\* and they change nothing else; while the flag is paused the loop steps
\* the program only for the single-step key, which handle_event_normal
\* takes, so that at the command line the instruction pointer and the
\* cycle counter change only by a set or load command.
C34_PausedRunsNothing ==
    [][/\ Dispatched("Start") => ~execution_paused' /\ UNCHANGED others
       /\ Dispatched("Pause") => execution_paused' /\ UNCHANGED others
       /\ (/\ execution_paused
           /\ pc = "idle"
           /\ <<instruction_pointer, cycles>>'
                  # <<instruction_pointer, cycles>>)
              => \/ activity = "Normal" /\ ~should_quit /\ Len(executed') = Len(executed)
                 \/ Dispatched("SetInstructionPointer")
                 \/ Dispatched("LoadScriptFromFile")]_vars

\* The program has run, Pause has just been executed from the command
\* line, and the host is paused.
C34_Witness ==
    /\ lastOp = "Pause"
    /\ LastExecuted.name = "Pause"
    /\ execution_paused
    /\ command_history = << <<"p", "a", "u", "s", "e">> >>
    /\ cycles >= 2
    /\ instruction_pointer >= 2

====
